---- MODULE Spec2Model ----
(***************************************************************************)
(* Skill extraction and matching engine of the ATS resume backend          *)
(* (backend/utils/skill_matcher.py) and the module globals it builds at    *)
(* import time.                                                            *)
(*                                                                         *)
(* A Python str is modelled as a sequence of one-character strings, so     *)
(* that lower(), re.sub, re.search with \b, split('.') and sorted() are    *)
(* computed character by character the way the interpreter computes them.  *)
(* The alphabet is ASCII (tab, newline and the printable characters).      *)
(***************************************************************************)
EXTENDS Integers, Sequences, FiniteSets, TLC

(***************************************************************************)
(* Characters                                                              *)
(***************************************************************************)

\* The printable ASCII characters in code-point order, 32 (space) to 126 (~).
\* "GRAVE" stands for the grave accent (96), which a TLA+ string cannot hold.
Ascii ==
    <<" ", "!", "\"", "#", "$", "%", "&", "'", "(", ")", "*", "+", ",", "-", ".", "/",
      "0", "1", "2", "3", "4", "5", "6", "7", "8", "9", ":", ";", "<", "=", ">", "?",
      "@", "A", "B", "C", "D", "E", "F", "G", "H", "I", "J", "K", "L", "M", "N", "O",
      "P", "Q", "R", "S", "T", "U", "V", "W", "X", "Y", "Z", "[", "\\", "]", "^", "_",
      "GRAVE", "a", "b", "c", "d", "e", "f", "g", "h", "i", "j", "k", "l", "m", "n", "o",
      "p", "q", "r", "s", "t", "u", "v", "w", "x", "y", "z", "{", "|", "}", "~">>

Chars == {Ascii[i] : i \in DOMAIN Ascii} \cup {"\t", "\n"}

\* ord(c)
CodePoint ==
    [c \in Chars |->
        IF c = "\t" THEN 9
        ELSE IF c = "\n" THEN 10
        ELSE 31 + (CHOOSE i \in DOMAIN Ascii : Ascii[i] = c)]

\* chr(n) for a printable n
Chr(n) == Ascii[n - 31]

\* str.lower() on one character: A-Z map to a-z, everything else is kept.
LowerChar(c) ==
    IF CodePoint[c] >= 65 /\ CodePoint[c] <= 90 THEN Chr(CodePoint[c] + 32) ELSE c

\* str.lower()
lower(s) == [i \in DOMAIN s |-> LowerChar(s[i])]

\* The characters of the regex class \w on ASCII: digits, letters, underscore.
WordChars ==
    {c \in Chars :
        \/ (CodePoint[c] >= 48 /\ CodePoint[c] <= 57)
        \/ (CodePoint[c] >= 65 /\ CodePoint[c] <= 90)
        \/ (CodePoint[c] >= 97 /\ CodePoint[c] <= 122)
        \/ CodePoint[c] = 95}

IsWordChar(c) == c \in WordChars

\* The regex class \s on this alphabet.
IsSpaceChar(c) == c \in {" ", "\t", "\n"}

\* None, where a str is expected: told from every str by its one element,
\* which is no character.
None == <<"None">>

(***************************************************************************)
(* str comparison: lexicographic by code point (what sorted() uses)        *)
(***************************************************************************)

RECURSIVE StrLessFrom(_, _, _)
StrLessFrom(a, b, i) ==
    IF i > Len(b) THEN FALSE
    ELSE IF i > Len(a) THEN TRUE
    ELSE IF a[i] # b[i] THEN CodePoint[a[i]] < CodePoint[b[i]]
    ELSE StrLessFrom(a, b, i + 1)

\* a < b on str
StrLess(a, b) == StrLessFrom(a, b, 1)

\* a <= b on str
StrLeq(a, b) == a = b \/ StrLess(a, b)

(***************************************************************************)
(* The skill catalog                                                       *)
(***************************************************************************)

\* SKILLS_DATABASE, the list literal, in source order.
SKILLS_DATABASE == <<
    \* Programming Languages
    <<"P","y","t","h","o","n">>,
    <<"J","a","v","a","S","c","r","i","p","t">>,
    <<"J","a","v","a">>,
    <<"C","+","+">>,
    <<"C","#">>,
    <<"T","y","p","e","S","c","r","i","p","t">>,
    <<"R","u","b","y">>,
    <<"P","H","P">>,
    <<"S","w","i","f","t">>,
    <<"K","o","t","l","i","n">>,
    <<"G","o">>,
    <<"R","u","s","t">>,
    <<"S","c","a","l","a">>,
    <<"R">>,
    <<"M","A","T","L","A","B">>,
    <<"P","e","r","l">>,
    <<"O","b","j","e","c","t","i","v","e","-","C">>,
    <<"D","a","r","t">>,
    <<"G","r","o","o","v","y">>,
    <<"E","l","i","x","i","r">>,
    <<"H","a","s","k","e","l","l">>,
    <<"L","u","a">>,
    <<"C">>,
    \* Web Technologies - Frontend
    <<"R","e","a","c","t">>,
    <<"R","e","a","c","t",".","j","s">>,
    <<"A","n","g","u","l","a","r">>,
    <<"V","u","e",".","j","s">>,
    <<"V","u","e">>,
    <<"S","v","e","l","t","e">>,
    <<"j","Q","u","e","r","y">>,
    <<"H","T","M","L">>,
    <<"H","T","M","L","5">>,
    <<"C","S","S">>,
    <<"C","S","S","3">>,
    <<"S","A","S","S">>,
    <<"S","C","S","S">>,
    <<"L","e","s","s">>,
    <<"B","o","o","t","s","t","r","a","p">>,
    <<"T","a","i","l","w","i","n","d"," ","C","S","S">>,
    <<"M","a","t","e","r","i","a","l"," ","U","I">>,
    <<"C","h","a","k","r","a"," ","U","I">>,
    <<"N","e","x","t",".","j","s">>,
    <<"N","u","x","t",".","j","s">>,
    <<"G","a","t","s","b","y">>,
    <<"W","e","b","p","a","c","k">>,
    <<"V","i","t","e">>,
    <<"B","a","b","e","l">>,
    <<"R","e","d","u","x">>,
    <<"M","o","b","X">>,
    <<"Z","u","s","t","a","n","d">>,
    \* Web Technologies - Backend
    <<"N","o","d","e",".","j","s">>,
    <<"E","x","p","r","e","s","s",".","j","s">>,
    <<"E","x","p","r","e","s","s">>,
    <<"D","j","a","n","g","o">>,
    <<"F","l","a","s","k">>,
    <<"F","a","s","t","A","P","I">>,
    <<"S","p","r","i","n","g"," ","B","o","o","t">>,
    <<"S","p","r","i","n","g">>,
    <<"A","S","P",".","N","E","T">>,
    <<".","N","E","T">>,
    <<"L","a","r","a","v","e","l">>,
    <<"R","u","b","y"," ","o","n"," ","R","a","i","l","s">>,
    <<"R","a","i","l","s">>,
    <<"S","y","m","f","o","n","y">>,
    <<"N","e","s","t","J","S">>,
    <<"F","a","s","t","i","f","y">>,
    <<"K","o","a">>,
    <<"H","a","p","i">>,
    \* Databases - SQL
    <<"P","o","s","t","g","r","e","S","Q","L">>,
    <<"M","y","S","Q","L">>,
    <<"S","Q","L"," ","S","e","r","v","e","r">>,
    <<"O","r","a","c","l","e">>,
    <<"M","a","r","i","a","D","B">>,
    <<"S","Q","L","i","t","e">>,
    <<"S","Q","L">>,
    <<"T","-","S","Q","L">>,
    <<"P","L","/","S","Q","L">>,
    \* Databases - NoSQL
    <<"M","o","n","g","o","D","B">>,
    <<"R","e","d","i","s">>,
    <<"C","a","s","s","a","n","d","r","a">>,
    <<"D","y","n","a","m","o","D","B">>,
    <<"C","o","u","c","h","b","a","s","e">>,
    <<"N","e","o","4","j">>,
    <<"F","i","r","e","b","a","s","e">>,
    <<"F","i","r","e","s","t","o","r","e">>,
    <<"E","l","a","s","t","i","c","s","e","a","r","c","h">>,
    <<"C","o","u","c","h","D","B">>,
    \* Cloud Platforms
    <<"A","W","S">>,
    <<"A","m","a","z","o","n"," ","W","e","b"," ","S","e","r","v","i","c","e","s">>,
    <<"A","z","u","r","e">>,
    <<"M","i","c","r","o","s","o","f","t"," ","A","z","u","r","e">>,
    <<"G","o","o","g","l","e"," ","C","l","o","u","d">>,
    <<"G","C","P">>,
    <<"G","o","o","g","l","e"," ","C","l","o","u","d"," ","P","l","a","t","f","o","r","m">>,
    <<"D","i","g","i","t","a","l","O","c","e","a","n">>,
    <<"H","e","r","o","k","u">>,
    <<"V","e","r","c","e","l">>,
    <<"N","e","t","l","i","f","y">>,
    <<"O","r","a","c","l","e"," ","C","l","o","u","d">>,
    <<"I","B","M"," ","C","l","o","u","d">>,
    <<"A","l","i","b","a","b","a"," ","C","l","o","u","d">>,
    \* Cloud Services - AWS
    <<"E","C","2">>,
    <<"S","3">>,
    <<"L","a","m","b","d","a">>,
    <<"R","D","S">>,
    <<"D","y","n","a","m","o","D","B">>,
    <<"C","l","o","u","d","F","r","o","n","t">>,
    <<"R","o","u","t","e"," ","5","3">>,
    <<"E","C","S">>,
    <<"E","K","S">>,
    <<"E","l","a","s","t","i","c"," ","B","e","a","n","s","t","a","l","k">>,
    <<"C","l","o","u","d","W","a","t","c","h">>,
    <<"S","N","S">>,
    <<"S","Q","S">>,
    \* DevOps & CI/CD
    <<"D","o","c","k","e","r">>,
    <<"K","u","b","e","r","n","e","t","e","s">>,
    <<"J","e","n","k","i","n","s">>,
    <<"G","i","t","L","a","b"," ","C","I">>,
    <<"G","i","t","H","u","b"," ","A","c","t","i","o","n","s">>,
    <<"C","i","r","c","l","e","C","I">>,
    <<"T","r","a","v","i","s"," ","C","I">>,
    <<"T","e","r","r","a","f","o","r","m">>,
    <<"A","n","s","i","b","l","e">>,
    <<"C","h","e","f">>,
    <<"P","u","p","p","e","t">>,
    <<"V","a","g","r","a","n","t">>,
    <<"C","I","/","C","D">>,
    <<"C","o","n","t","i","n","u","o","u","s"," ","I","n","t","e","g","r","a","t","i","o","n">>,
    <<"C","o","n","t","i","n","u","o","u","s"," ","D","e","p","l","o","y","m","e","n","t">>,
    \* Version Control
    <<"G","i","t">>,
    <<"G","i","t","H","u","b">>,
    <<"G","i","t","L","a","b">>,
    <<"B","i","t","b","u","c","k","e","t">>,
    <<"S","V","N">>,
    <<"M","e","r","c","u","r","i","a","l">>,
    \* Testing
    <<"J","e","s","t">>,
    <<"M","o","c","h","a">>,
    <<"C","h","a","i">>,
    <<"P","y","t","e","s","t">>,
    <<"J","U","n","i","t">>,
    <<"T","e","s","t","N","G">>,
    <<"S","e","l","e","n","i","u","m">>,
    <<"C","y","p","r","e","s","s">>,
    <<"P","l","a","y","w","r","i","g","h","t">>,
    <<"P","u","p","p","e","t","e","e","r">>,
    <<"J","M","e","t","e","r">>,
    <<"P","o","s","t","m","a","n">>,
    <<"I","n","s","o","m","n","i","a">>,
    \* API & Architecture
    <<"R","E","S","T"," ","A","P","I">>,
    <<"R","E","S","T","f","u","l">>,
    <<"G","r","a","p","h","Q","L">>,
    <<"g","R","P","C">>,
    <<"W","e","b","S","o","c","k","e","t">>,
    <<"M","i","c","r","o","s","e","r","v","i","c","e","s">>,
    <<"M","o","n","o","l","i","t","h","i","c">>,
    <<"A","P","I"," ","G","a","t","e","w","a","y">>,
    <<"S","w","a","g","g","e","r">>,
    <<"O","p","e","n","A","P","I">>,
    <<"S","O","A","P">>,
    \* Mobile Development
    <<"A","n","d","r","o","i","d">>,
    <<"i","O","S">>,
    <<"R","e","a","c","t"," ","N","a","t","i","v","e">>,
    <<"F","l","u","t","t","e","r">>,
    <<"X","a","m","a","r","i","n">>,
    <<"I","o","n","i","c">>,
    <<"S","w","i","f","t"," ","U","I">>,
    <<"J","e","t","p","a","c","k"," ","C","o","m","p","o","s","e">>,
    <<"C","o","r","d","o","v","a">>,
    \* Data Science & ML
    <<"M","a","c","h","i","n","e"," ","L","e","a","r","n","i","n","g">>,
    <<"D","e","e","p"," ","L","e","a","r","n","i","n","g">>,
    <<"T","e","n","s","o","r","F","l","o","w">>,
    <<"P","y","T","o","r","c","h">>,
    <<"K","e","r","a","s">>,
    <<"S","c","i","k","i","t","-","l","e","a","r","n">>,
    <<"P","a","n","d","a","s">>,
    <<"N","u","m","P","y">>,
    <<"S","c","i","P","y">>,
    <<"M","a","t","p","l","o","t","l","i","b">>,
    <<"S","e","a","b","o","r","n">>,
    <<"D","a","t","a"," ","A","n","a","l","y","s","i","s">>,
    <<"D","a","t","a"," ","S","c","i","e","n","c","e">>,
    <<"N","L","P">>,
    <<"N","a","t","u","r","a","l"," ","L","a","n","g","u","a","g","e"," ","P","r","o","c","e","s","s","i","n","g">>,
    <<"C","o","m","p","u","t","e","r"," ","V","i","s","i","o","n">>,
    <<"O","p","e","n","C","V">>,
    <<"N","L","T","K">>,
    <<"s","p","a","C","y">>,
    <<"H","u","g","g","i","n","g"," ","F","a","c","e">>,
    \* Big Data
    <<"A","p","a","c","h","e"," ","S","p","a","r","k">>,
    <<"H","a","d","o","o","p">>,
    <<"K","a","f","k","a">>,
    <<"A","i","r","f","l","o","w">>,
    <<"D","a","t","a","b","r","i","c","k","s">>,
    <<"S","n","o","w","f","l","a","k","e">>,
    <<"B","i","g","Q","u","e","r","y">>,
    <<"R","e","d","s","h","i","f","t">>,
    <<"E","T","L">>,
    <<"D","a","t","a"," ","P","i","p","e","l","i","n","e">>,
    <<"D","a","t","a"," ","W","a","r","e","h","o","u","s","e">>,
    \* Project Management Tools
    <<"J","i","r","a">>,
    <<"C","o","n","f","l","u","e","n","c","e">>,
    <<"T","r","e","l","l","o">>,
    <<"A","s","a","n","a">>,
    <<"M","o","n","d","a","y",".","c","o","m">>,
    <<"N","o","t","i","o","n">>,
    <<"C","l","i","c","k","U","p">>,
    <<"L","i","n","e","a","r">>,
    <<"B","a","s","e","c","a","m","p">>,
    \* Methodologies & Practices
    <<"A","g","i","l","e">>,
    <<"S","c","r","u","m">>,
    <<"K","a","n","b","a","n">>,
    <<"W","a","t","e","r","f","a","l","l">>,
    <<"D","e","v","O","p","s">>,
    <<"T","D","D">>,
    <<"T","e","s","t","-","D","r","i","v","e","n"," ","D","e","v","e","l","o","p","m","e","n","t">>,
    <<"B","D","D">>,
    <<"B","e","h","a","v","i","o","r","-","D","r","i","v","e","n"," ","D","e","v","e","l","o","p","m","e","n","t">>,
    <<"P","a","i","r"," ","P","r","o","g","r","a","m","m","i","n","g">>,
    <<"C","o","d","e"," ","R","e","v","i","e","w">>,
    <<"C","o","n","t","i","n","u","o","u","s"," ","L","e","a","r","n","i","n","g">>,
    \* Soft Skills
    <<"L","e","a","d","e","r","s","h","i","p">>,
    <<"C","o","m","m","u","n","i","c","a","t","i","o","n">>,
    <<"T","e","a","m"," ","M","a","n","a","g","e","m","e","n","t">>,
    <<"P","r","o","b","l","e","m"," ","S","o","l","v","i","n","g">>,
    <<"C","r","i","t","i","c","a","l"," ","T","h","i","n","k","i","n","g">>,
    <<"T","i","m","e"," ","M","a","n","a","g","e","m","e","n","t">>,
    <<"P","r","o","j","e","c","t"," ","M","a","n","a","g","e","m","e","n","t">>,
    <<"C","o","l","l","a","b","o","r","a","t","i","o","n">>,
    <<"M","e","n","t","o","r","i","n","g">>,
    <<"P","u","b","l","i","c"," ","S","p","e","a","k","i","n","g">>,
    <<"T","e","c","h","n","i","c","a","l"," ","W","r","i","t","i","n","g">>,
    <<"A","n","a","l","y","t","i","c","a","l"," ","S","k","i","l","l","s">>,
    <<"C","r","e","a","t","i","v","i","t","y">>,
    <<"A","d","a","p","t","a","b","i","l","i","t","y">>,
    <<"C","o","n","f","l","i","c","t"," ","R","e","s","o","l","u","t","i","o","n">>,
    \* Other Technologies
    <<"G","r","a","p","h","Q","L">>,
    <<"W","e","b","A","s","s","e","m","b","l","y">>,
    <<"B","l","o","c","k","c","h","a","i","n">>,
    <<"S","o","l","i","d","i","t","y">>,
    <<"E","t","h","e","r","e","u","m">>,
    <<"S","m","a","r","t"," ","C","o","n","t","r","a","c","t","s">>,
    <<"W","e","b","3">>,
    <<"S","o","c","k","e","t",".","i","o">>,
    <<"R","a","b","b","i","t","M","Q">>,
    <<"N","g","i","n","x">>,
    <<"A","p","a","c","h","e">>,
    <<"L","i","n","u","x">>,
    <<"U","n","i","x">>,
    <<"S","h","e","l","l"," ","S","c","r","i","p","t","i","n","g">>,
    <<"B","a","s","h">>,
    <<"P","o","w","e","r","S","h","e","l","l">>,
    \* Design & UI/UX
    <<"F","i","g","m","a">>,
    <<"A","d","o","b","e"," ","X","D">>,
    <<"S","k","e","t","c","h">>,
    <<"P","h","o","t","o","s","h","o","p">>,
    <<"I","l","l","u","s","t","r","a","t","o","r">>,
    <<"I","n","V","i","s","i","o","n">>,
    <<"U","I"," ","D","e","s","i","g","n">>,
    <<"U","X"," ","D","e","s","i","g","n">>,
    <<"U","s","e","r"," ","R","e","s","e","a","r","c","h">>,
    <<"W","i","r","e","f","r","a","m","i","n","g">>,
    <<"P","r","o","t","o","t","y","p","i","n","g">>,
    \* Security
    <<"O","A","u","t","h">>,
    <<"J","W","T">>,
    <<"A","u","t","h","e","n","t","i","c","a","t","i","o","n">>,
    <<"A","u","t","h","o","r","i","z","a","t","i","o","n">>,
    <<"E","n","c","r","y","p","t","i","o","n">>,
    <<"S","S","L">>,
    <<"T","L","S">>,
    <<"P","e","n","e","t","r","a","t","i","o","n"," ","T","e","s","t","i","n","g">>,
    <<"S","e","c","u","r","i","t","y"," ","A","u","d","i","t">>,
    <<"O","W","A","S","P">>
>>

(***************************************************************************)
(* The part of the re module that extract_skills uses                      *)
(***************************************************************************)

\* A compiled pattern is a sequence of atoms: the assertion \b, or one
\* literal character.
WordBoundaryAtom == [kind |-> "b", ch |-> ""]

LiteralAtom(c) == [kind |-> "lit", ch |-> c]

\* re.escape(s), compiled: every character of s, special or not, ends up
\* matching itself and nothing else.
re_escape(s) == [i \in DOMAIN s |-> LiteralAtom(s[i])]

\* r'\b' + re.escape(s) + r'\b'
BoundedPattern(s) == <<WordBoundaryAtom>> \o re_escape(s) \o <<WordBoundaryAtom>>

\* \b at offset i of s (between s[i] and s[i+1]): exactly one of the two
\* neighbours is a word character; the outside of the string is not one.
WordBoundary(s, i) ==
    (i > 0 /\ IsWordChar(s[i])) # (i < Len(s) /\ IsWordChar(s[i + 1]))

\* The atoms k.. of pattern p match s starting at offset i.
RECURSIVE MatchAt(_, _, _, _)
MatchAt(p, k, s, i) ==
    IF k > Len(p) THEN TRUE
    ELSE IF p[k].kind = "b" THEN WordBoundary(s, i) /\ MatchAt(p, k + 1, s, i)
    ELSE i < Len(s) /\ s[i + 1] = p[k].ch /\ MatchAt(p, k + 1, s, i + 1)

\* re.search(p, s) is not None
re_search(p, s) == \E i \in 0..Len(s) : MatchAt(p, 1, s, i)

\* re.sub(r'[^\w\s.\-+#]', ' ', s)
re_sub_special(s) ==
    [i \in DOMAIN s |->
        IF IsWordChar(s[i]) \/ IsSpaceChar(s[i]) \/ s[i] \in {".", "-", "+", "#"}
        THEN s[i] ELSE " "]

\* '.' in s
HasDot(s) == \E i \in DOMAIN s : s[i] = "."

\* s.split('.')[0]: the characters before the first '.', all of s if none.
SplitDotFirst(s) ==
    IF HasDot(s)
    THEN SubSeq(s, 1, (CHOOSE i \in DOMAIN s : s[i] = "." /\ \A j \in 1..(i - 1) : s[j] # ".") - 1)
    ELSE s

(***************************************************************************)
(* list(a_set) and sorted()                                                *)
(***************************************************************************)

\* The iteration order of a set of str depends on the process's string hash
\* seed. Two orders stand for the orders the interpreter can produce.
HashSeeds == {0, 1}

RECURSIVE SetToSeq(_)
SetToSeq(S) ==
    IF S = {} THEN <<>>
    ELSE LET x == CHOOSE y \in S : TRUE IN <<x>> \o SetToSeq(S \ {x})

Reverse(xs) == [i \in DOMAIN xs |-> xs[Len(xs) + 1 - i]]

\* list(S) in a process whose hash seed is seed
list_of_set(S, seed) == IF seed = 0 THEN SetToSeq(S) ELSE Reverse(SetToSeq(S))

RemoveAt(xs, i) == [j \in 1..(Len(xs) - 1) |-> IF j < i THEN xs[j] ELSE xs[j + 1]]

\* sorted(xs) for a list of str: ascending by code point.
RECURSIVE sorted(_)
sorted(xs) ==
    IF xs = <<>> THEN <<>>
    ELSE LET i == CHOOSE k \in DOMAIN xs : \A j \in DOMAIN xs : StrLeq(xs[k], xs[j])
         IN  <<xs[i]>> \o sorted(RemoveAt(xs, i))

(***************************************************************************)
(* extract_skills                                                          *)
(***************************************************************************)

\* The exact-match rule: re.search(r'\b' + re.escape(skill_lower) + r'\b', ...)
ExactMatch(skill, text_normalized) ==
    re_search(BoundedPattern(lower(skill)), text_normalized)

\* s.split('.')[-1]: the characters after the last '.', all of s if none.
SplitDotLast(s) ==
    IF HasDot(s)
    THEN SubSeq(s, (CHOOSE i \in DOMAIN s : s[i] = "." /\ \A j \in (i + 1)..Len(s) : s[j] # ".") + 1, Len(s))
    ELSE s

\* The variation rule, had it taken the part after the last '.' as the base.
BaseMatch_LastPart(skill, text_normalized) ==
    /\ HasDot(lower(skill))
    /\ re_search(BoundedPattern(SplitDotLast(lower(skill))), text_normalized)

\* The variation rule for a skill with a '.' in it.
BaseMatch(skill, text_normalized) ==
    /\ HasDot(lower(skill))
    /\ re_search(BoundedPattern(SplitDotFirst(lower(skill))), text_normalized)

\* One iteration of "for skill in SKILLS_DATABASE": found_skills after it.
LoopBody(found_skills, skill, text_normalized) ==
    IF ExactMatch(skill, text_normalized) THEN found_skills \cup {skill}
    ELSE IF BaseMatch(skill, text_normalized) THEN found_skills \cup {skill}
    ELSE found_skills

\* found_skills after the whole loop over database, starting from found_skills:
\* every iteration only adds its own skill, so the loop adds the skills whose
\* iteration adds them.
ForLoop(database, found_skills, text_normalized) ==
    found_skills \cup
        {database[i] : i \in {j \in DOMAIN database :
            database[j] \in LoopBody({}, database[j], text_normalized)}}

\* How a call ends: it returns a value, or an exception leaves it.
Return(v) == [exc |-> "", value |-> v]

Raise(e) == [exc |-> e, value |-> <<>>]

\* The guard, had it been "text == ''".
Falsy_EmptyOnly(text) == text = <<>>

\* "not text": true of None and of the empty str.
Falsy(text) == text = None \/ text = <<>>

\* text_normalized of extract_skills
Normalized(text) == re_sub_special(lower(text))

\* The return statement, had it left out sorted().
ExtractReturn_Unsorted(found_skills, seed) == list_of_set(found_skills, seed)

\* return sorted(list(found_skills))
ExtractReturn(found_skills, seed) == sorted(list_of_set(found_skills, seed))

\* extract_skills(text) run against the catalog list database in a process
\* whose hash seed is seed. None has no lower(): past the guard it would raise.
ExtractSkillsIn(text, database, seed) ==
    IF Falsy(text) THEN Return(<<>>)
    ELSE IF text = None THEN Raise("AttributeError")
    ELSE Return(ExtractReturn(ForLoop(database, {}, Normalized(text)), seed))

\* The dict a comprehension over database builds when key[i] is the key of
\* database[i]: a later entry overwrites an earlier one with the same key.
DictOf(database, key) ==
    [k \in {key[i] : i \in DOMAIN database} |->
        database[CHOOSE i \in DOMAIN database :
                    /\ key[i] = k
                    /\ \A j \in (i + 1)..Len(database) : key[j] # k]]

(***************************************************************************)
(* calculate_match                                                         *)
(***************************************************************************)

\* {skill.lower() for skill in skills}
LowerSet(skills) == {lower(skills[i]) : i \in DOMAIN skills}

\* jd_set.intersection(resume_set)
MatchedLower(jd_set, resume_set) == jd_set \cap resume_set

\* The missing set, had the resume not been subtracted.
MissingLower_NoSubtraction(jd_set, resume_set) == jd_set

\* jd_set - resume_set
MissingLower(jd_set, resume_set) == jd_set \ resume_set

\* round(num / den * 100, 2), in hundredths of a percent: 3333 is 33.33.
\* The quotient is rounded to the nearest hundredth, a tie to the even one.
Round2Percent(num, den) ==
    LET q == (10000 * num) \div den
        r == (10000 * num) % den
    IN  IF 2 * r < den THEN q
        ELSE IF 2 * r > den THEN q + 1
        ELSE IF q % 2 = 0 THEN q ELSE q + 1

\* (num / den) * 100 rounded by round(score, 2): the division raises
\* ZeroDivisionError when den is 0.
Divide(num, den) ==
    IF den = 0 THEN Raise("ZeroDivisionError") ELSE Return(Round2Percent(num, den))

\* The score statement, had "if len(jd_skills) == 0" not guarded the division.
ScoreOutcome_NoGuard(matched_lower, jd_skills) ==
    Divide(Cardinality(matched_lower), Len(jd_skills))

\* "if len(jd_skills) == 0: score = 0.0 else: score = (len(matched_lower) /
\* len(jd_skills)) * 100", with the rounding of the return statement: how the
\* statement ends.
ScoreOutcome(matched_lower, jd_skills) ==
    IF Len(jd_skills) = 0 THEN Return(0)
    ELSE Divide(Cardinality(matched_lower), Len(jd_skills))

\* The score, had the distinct JD skills been the denominator.
Score_DistinctDenominator(matched_lower, jd_skills) ==
    IF Len(jd_skills) = 0 THEN 0
    ELSE Round2Percent(Cardinality(matched_lower), Cardinality(LowerSet(jd_skills)))

\* The score, had the quotient been taken the other way round.
Score_Inverted(matched_lower, jd_skills) ==
    IF Len(jd_skills) = 0 \/ Cardinality(matched_lower) = 0 THEN 0
    ELSE Round2Percent(Len(jd_skills), Cardinality(matched_lower))

\* score, in hundredths of a percent: 0.0 for an empty jd_skills.
Score(matched_lower, jd_skills) == ScoreOutcome(matched_lower, jd_skills).value

\* The casing map, had the first occurrence of a skill won.
JdSkillMap_FirstWins(jd_skills) ==
    [k \in LowerSet(jd_skills) |->
        jd_skills[CHOOSE i \in DOMAIN jd_skills :
                    /\ lower(jd_skills[i]) = k
                    /\ \A j \in 1..(i - 1) : lower(jd_skills[j]) # k]]

\* {skill.lower(): skill for skill in jd_skills}
JdSkillMap(jd_skills) == DictOf(jd_skills, [i \in DOMAIN jd_skills |-> lower(jd_skills[i])])

\* [jd_skill_map[skill] for skill in lower_set]
RestoreCasing(jd_skill_map, lower_set, seed) ==
    LET keys == list_of_set(lower_set, seed)
    IN  [i \in DOMAIN keys |-> jd_skill_map[keys[i]]]

\* The returned dict, had the two lists been left in iteration order.
MatchResult_Unsorted(matched_skills, missing_skills, score, jd_skills) ==
    [score |-> score,
     matched_skills |-> matched_skills,
     missing_skills |-> missing_skills,
     total_jd_skills |-> Len(jd_skills),
     total_matched |-> Len(matched_skills)]

\* The returned dict, had total_jd_skills counted the distinct JD skills.
MatchResult_TotalDistinct(matched_skills, missing_skills, score, jd_skills) ==
    [score |-> score,
     matched_skills |-> sorted(matched_skills),
     missing_skills |-> sorted(missing_skills),
     total_jd_skills |-> Len(matched_skills) + Len(missing_skills),
     total_matched |-> Len(matched_skills)]

\* The dict calculate_match returns from the two sets and the casing map.
MatchResult(matched_skills, missing_skills, score, jd_skills) ==
    [score |-> score,
     matched_skills |-> sorted(matched_skills),
     missing_skills |-> sorted(missing_skills),
     total_jd_skills |-> Len(jd_skills),
     total_matched |-> Len(matched_skills)]

\* calculate_match(resume_skills, jd_skills) in a process whose hash seed is seed.
CalculateMatchIn(resume_skills, jd_skills, seed) ==
    MatchResult(
        RestoreCasing(JdSkillMap(jd_skills),
                      MatchedLower(LowerSet(jd_skills), LowerSet(resume_skills)), seed),
        RestoreCasing(JdSkillMap(jd_skills),
                      MissingLower(LowerSet(jd_skills), LowerSet(resume_skills)), seed),
        Score(MatchedLower(LowerSet(jd_skills), LowerSet(resume_skills)), jd_skills),
        jd_skills)

\* How calculate_match(resume_skills, jd_skills) ends in a process whose hash
\* seed is seed: an exception of the score statement leaves the function.
CalculateMatchOutcome(resume_skills, jd_skills, seed) ==
    IF ScoreOutcome(MatchedLower(LowerSet(jd_skills), LowerSet(resume_skills)),
                    jd_skills).exc # ""
    THEN Raise(ScoreOutcome(MatchedLower(LowerSet(jd_skills), LowerSet(resume_skills)),
                            jd_skills).exc)
    ELSE Return(CalculateMatchIn(resume_skills, jd_skills, seed))

(***************************************************************************)
(* get_skill_suggestions                                                   *)
(***************************************************************************)

\* skill_categories, in the order of the dict literal.
skill_categories == <<
    [name |-> "frontend",
     skills |-> << <<"R","e","a","c","t">>, <<"A","n","g","u","l","a","r">>, <<"V","u","e",".","j","s">>, <<"H","T","M","L">>, <<"C","S","S">>, <<"J","a","v","a","S","c","r","i","p","t">>, <<"T","y","p","e","S","c","r","i","p","t">> >>],
    [name |-> "backend",
     skills |-> << <<"N","o","d","e",".","j","s">>, <<"P","y","t","h","o","n">>, <<"J","a","v","a">>, <<"D","j","a","n","g","o">>, <<"F","l","a","s","k">>, <<"S","p","r","i","n","g"," ","B","o","o","t">> >>],
    [name |-> "database",
     skills |-> << <<"M","o","n","g","o","D","B">>, <<"P","o","s","t","g","r","e","S","Q","L">>, <<"M","y","S","Q","L">>, <<"R","e","d","i","s">> >>],
    [name |-> "cloud",
     skills |-> << <<"A","W","S">>, <<"A","z","u","r","e">>, <<"G","o","o","g","l","e"," ","C","l","o","u","d">>, <<"D","o","c","k","e","r">>, <<"K","u","b","e","r","n","e","t","e","s">> >> ] >>

\* The membership test, had the category's skills not been lowercased.
AnyEqualLower_CaseSensitive(skill_lower, cat_skills) ==
    \E i \in DOMAIN cat_skills : skill_lower = cat_skills[i]

\* any(skill_lower == s.lower() for s in cat_skills)
AnyEqualLower(skill_lower, cat_skills) ==
    \E i \in DOMAIN cat_skills : skill_lower = lower(cat_skills[i])

\* category after the inner loop: the name of the first category that holds
\* the skill, "" standing for None.
CategoryOf(skill) ==
    IF \E c \in DOMAIN skill_categories :
            AnyEqualLower(lower(skill), skill_categories[c].skills)
    THEN skill_categories[
            CHOOSE c \in DOMAIN skill_categories :
                /\ AnyEqualLower(lower(skill), skill_categories[c].skills)
                /\ \A d \in 1..(c - 1) :
                    ~AnyEqualLower(lower(skill), skill_categories[d].skills)].name
    ELSE ""

\* f"Learn {skill} through online courses or projects"
LearnSuggestion(skill) == <<"L","e","a","r","n"," ">> \o skill \o <<" ","t","h","r","o","u","g","h"," ","o","n","l","i","n","e"," ","c","o","u","r","s","e","s"," ","o","r"," ","p","r","o","j","e","c","t","s">>

\* f"Consider gaining experience with {skill}"
ConsiderSuggestion(skill) == <<"C","o","n","s","i","d","e","r"," ","g","a","i","n","i","n","g"," ","e","x","p","e","r","i","e","n","c","e"," ","w","i","t","h"," ">> \o skill

\* One iteration of "for skill in missing_skills": suggestions after it.
SuggestBody(suggestions, skill) ==
    IF CategoryOf(skill) # "" THEN Append(suggestions, LearnSuggestion(skill))
    ELSE Append(suggestions, ConsiderSuggestion(skill))

\* suggestions after the iterations i..len(missing_skills).
RECURSIVE SuggestLoop(_, _, _)
SuggestLoop(missing_skills, i, suggestions) ==
    IF i > Len(missing_skills) THEN suggestions
    ELSE SuggestLoop(missing_skills, i + 1, SuggestBody(suggestions, missing_skills[i]))

\* get_skill_suggestions(missing_skills)
get_skill_suggestions(missing_skills) == SuggestLoop(missing_skills, 1, <<>>)

(***************************************************************************)
(* State                                                                   *)
(***************************************************************************)

VARIABLES
    loaded,           \* utils.skill_matcher has been imported
    skills_database,  \* the module global SKILLS_DATABASE
    skills_lookup,    \* the module global SKILLS_LOOKUP
    log,              \* what the process has logged
    hashseed,         \* the process's string hash seed
    call,             \* the call under study: the function and its arguments
    returned,         \* the call has ended
    ret,              \* what it returned
    exc,              \* the exception that left it, "" if none
    pc,               \* per request thread: where its call stands
    tcall,            \* per request thread: the function it calls and the arguments
    frame,            \* per request thread: the local variables of its call
    tret,             \* per request thread: what its call returned
    _analysis_model,  \* the module global _analysis_model of routes.analysis
    constructed,      \* the number of AnalysisModel objects the process has built
    analyses,         \* the documents of the MongoDB collection 'analyses'
    last_id,          \* the last _id the collection has given a document
    collection_bool,  \* what bool() of a pymongo Collection does in this process
    handled,          \* the number of requests the service has answered
    request,          \* the request answered last
    response,         \* the answer to it: the status and the JSON body
    db_error          \* analyze_match's local db_error, "" if the save raised nothing

\* The module globals and the process's hash seed.
shared == <<loaded, skills_database, skills_lookup, log, hashseed>>

\* The call under study, when one call runs alone.
single == <<call, returned, ret, exc>>

\* The calls of the request threads.
threaded == <<pc, tcall, frame, tret>>

\* The persistence layer and the request the service answered last.
service == <<_analysis_model, constructed, analyses, last_id, collection_bool,
             handled, request, response, db_error>>

vars == <<shared, single, threaded, service>>

\* extract_skills(text) in the current process
extract_skills(text) == ExtractSkillsIn(text, skills_database, hashseed)

\* calculate_match(resume_skills, jd_skills) in the current process
calculate_match(resume_skills, jd_skills) ==
    CalculateMatchOutcome(resume_skills, jd_skills, hashseed)

\* {skill.lower(): skill for skill in database}
LookupOf(database) == DictOf(database, [i \in DOMAIN database |-> lower(database[i])])

(***************************************************************************)
(* Inputs                                                                  *)
(***************************************************************************)

\* The most fragments a generated text is made of.
MaxFrags == 2

Fragments ==
    { <<"J","a","v","a">>, <<"S","c","r","i","p","t">>, <<"C","+","+">>,
      <<"c","#">>, <<".","N","E","T">>, <<"N","o","d","e">>, <<"R","e","a","c","t">>,
      <<".","j","s">>, <<" ">>, <<",">> }

RECURSIVE Concat(_)
Concat(fs) == IF fs = <<>> THEN <<>> ELSE Head(fs) \o Concat(Tail(fs))

\* The sentences of the specification's examples.
Examples ==
    { <<"I"," ","l","o","v","e"," ","J","a","v","a","S","c","r","i","p","t">>,
      <<"I"," ","u","s","e"," ","J","a","v","a"," ","d","a","i","l","y">>,
      <<"I"," ","u","s","e"," ","R","e","a","c","t"," ","f","o","r"," ","f","r","o","n","t","e","n","d">>,
      <<"h","e","l","l","o"," ","w","o","r","l","d">>,
      <<"G","r","a","p","h","Q","L"," ","a","n","d"," ","D","y","n","a","m","o","D","B">> }

Texts ==
    {None} \cup Examples
    \cup UNION {{Concat(fs) : fs \in [1..n -> Fragments]} : n \in 0..MaxFrags}

\* The longest resume_skills and jd_skills lists handed to calculate_match.
MaxResume == 2

MaxJd == 3

\* Skill strings for the two lists: one skill in two casings, two more skills.
SkillPool == { <<"P","y","t","h","o","n">>, <<"p","y","t","h","o","n">>, <<"S","Q","L">>, <<"G","o">> }

ListsUpTo(n) == UNION {[1..k -> SkillPool] : k \in 0..n}

\* The longest missing_skills list handed to get_skill_suggestions.
MaxMissing == 2

\* Skill strings for missing_skills: in a category, in one in another casing,
\* in none.
SuggestPool == { <<"R","e","a","c","t">>, <<"p","y","t","h","o","n">>, <<"H","a","s","k","e","l","l">> }

SuggestLists == UNION {[1..k -> SuggestPool] : k \in 0..MaxMissing}

\* The threads that serve requests at the same time.
Threads == {"t1", "t2"}

NoFrame == [fn |-> "none"]

(***************************************************************************)
(* Operations                                                              *)
(***************************************************************************)

NoCall == [fn |-> "none"]

\* The global _analysis_model while it is None.
ModelNone == [type |-> "NoneType", collection |-> "None"]

NoRequest == [route |-> "none"]

NoResponse == [status |-> 0]

\* routes.analysis and models.analysis are not imported: no request is served.
ServiceNotStarted ==
    /\ _analysis_model = ModelNone
    /\ constructed = 0
    /\ analyses = <<>>
    /\ last_id = 0
    /\ collection_bool = "not imported"
    /\ handled = 0
    /\ request = NoRequest
    /\ response = NoResponse
    /\ db_error = ""

Init ==
    /\ loaded = FALSE
    /\ skills_database = <<>>
    /\ skills_lookup = <<>>
    /\ log = <<>>
    /\ hashseed \in HashSeeds
    /\ call = NoCall
    /\ returned = FALSE
    /\ ret = <<>>
    /\ exc = ""
    /\ pc = [t \in Threads |-> "idle"]
    /\ tcall = [t \in Threads |-> NoCall]
    /\ frame = [t \in Threads |-> NoFrame]
    /\ tret = [t \in Threads |-> <<>>]
    /\ ServiceNotStarted

\* The call under study ends with outcome out.
Ends(out) ==
    /\ returned' = TRUE
    /\ ret' = out.value
    /\ exc' = out.exc

\* import utils.skill_matcher: the two module-level assignments.
ImportSkillMatcher ==
    /\ ~loaded
    /\ loaded' = TRUE
    /\ skills_database' = SKILLS_DATABASE
    /\ skills_lookup' = LookupOf(SKILLS_DATABASE)
    /\ UNCHANGED <<log, hashseed, single, threaded, service>>

\* A call extract_skills(text), from its entry to its return.
CallExtractSkills ==
    /\ loaded
    /\ ~returned
    /\ \E text \in Texts :
        /\ call' = [fn |-> "extract_skills", text |-> text]
        /\ Ends(extract_skills(text))
    /\ UNCHANGED <<shared, service, threaded>>

\* A call calculate_match(resume_skills, jd_skills), from its entry to its return.
CallCalculateMatch ==
    /\ loaded
    /\ ~returned
    /\ \E resume_skills \in ListsUpTo(MaxResume), jd_skills \in ListsUpTo(MaxJd) :
        /\ call' = [fn |-> "calculate_match",
                    resume_skills |-> resume_skills, jd_skills |-> jd_skills]
        /\ Ends(calculate_match(resume_skills, jd_skills))
    /\ UNCHANGED <<shared, service, threaded>>

\* A call get_skill_suggestions(missing_skills), from its entry to its return.
CallGetSkillSuggestions ==
    /\ loaded
    /\ ~returned
    /\ \E missing_skills \in SuggestLists :
        /\ call' = [fn |-> "get_skill_suggestions", missing_skills |-> missing_skills]
        /\ Ends(Return(get_skill_suggestions(missing_skills)))
    /\ UNCHANGED <<shared, service, threaded>>

Next ==
    \/ ImportSkillMatcher
    \/ CallExtractSkills
    \/ CallCalculateMatch
    \/ CallGetSkillSuggestions

Spec == Init /\ [][Next]_vars

\* The process when, after the import, calculate_match alone is called.
NextMatchCalls ==
    \/ ImportSkillMatcher
    \/ CallCalculateMatch

SpecMatchCalls == Init /\ [][NextMatchCalls]_vars

(***************************************************************************)
(* Calls made at the same time by request threads                          *)
(*                                                                         *)
(* Each thread runs one call, statement by statement; between any two      *)
(* statements the interpreter may switch to the other thread.              *)
(***************************************************************************)

\* SKILLS_LOOKUP as the import builds it.
SKILLS_LOOKUP == LookupOf(SKILLS_DATABASE)

\* The text thread t hands to extract_skills: a different one per thread.
ThreadText(t) == IF t = "t1" THEN <<"J","a","v","a">> ELSE <<"N","o","d","e">>

\* The calls request thread t picks from.
ThreadCalls(t) ==
    { [fn |-> "extract_skills", text |-> ThreadText(t)],
      [fn |-> "calculate_match",
       resume_skills |-> << <<"P","y","t","h","o","n">> >>, jd_skills |-> << <<"p","y","t","h","o","n">>, <<"S","Q","L">> >>],
      [fn |-> "get_skill_suggestions", missing_skills |-> << <<"R","e","a","c","t">>, <<"H","a","s","k","e","l","l">> >>] }

InitThreads ==
    /\ loaded = TRUE
    /\ skills_database = SKILLS_DATABASE
    /\ skills_lookup = SKILLS_LOOKUP
    /\ log = <<>>
    /\ hashseed \in HashSeeds
    /\ call = NoCall
    /\ returned = FALSE
    /\ ret = <<>>
    /\ exc = ""
    /\ pc = [t \in Threads |-> "idle"]
    /\ tcall = [t \in Threads |-> NoCall]
    /\ frame = [t \in Threads |-> NoFrame]
    /\ tret = [t \in Threads |-> <<>>]
    /\ ServiceNotStarted

\* Thread t enters a call.
ThreadEnters(t) ==
    /\ pc[t] = "idle"
    /\ \E c \in ThreadCalls(t) : tcall' = [tcall EXCEPT ![t] = c]
    /\ pc' = [pc EXCEPT ![t] = "entered"]
    /\ UNCHANGED <<shared, service, single, frame, tret>>

\* Thread t's call returns value.
ThreadReturns(t, value) ==
    /\ pc' = [pc EXCEPT ![t] = "done"]
    /\ tret' = [tret EXCEPT ![t] = value]

\* found_skills as a statement of thread t's extract_skills call sees it: a
\* local variable of that call, had it been one set shared by all calls.
LocalFound_Shared(t) ==
    UNION {frame[u].found_skills : u \in {v \in Threads : frame[v].fn = "extract_skills"}}

\* found_skills as a statement of thread t's extract_skills call sees it: a
\* local variable of that call.
LocalFound(t) == frame[t].found_skills

\* extract_skills, from the guard to the start of the loop.
ExtractBegins(t) ==
    /\ pc[t] = "entered"
    /\ tcall[t].fn = "extract_skills"
    /\ IF Falsy(tcall[t].text)
       THEN /\ ThreadReturns(t, <<>>)
            /\ UNCHANGED frame
       ELSE /\ frame' = [frame EXCEPT ![t] =
                    [fn |-> "extract_skills",
                     found_skills |-> {},
                     text_normalized |-> Normalized(tcall[t].text),
                     i |-> 1]]
            /\ pc' = [pc EXCEPT ![t] = "loop"]
            /\ UNCHANGED tret
    /\ UNCHANGED <<shared, service, single, tcall>>

\* extract_skills, one iteration of the loop over SKILLS_DATABASE.
ExtractIterates(t) ==
    /\ pc[t] = "loop"
    /\ tcall[t].fn = "extract_skills"
    /\ frame[t].i <= Len(skills_database)
    /\ frame' = [frame EXCEPT ![t] =
            [fn |-> "extract_skills",
             found_skills |-> LoopBody(LocalFound(t), skills_database[frame[t].i],
                                       frame[t].text_normalized),
             text_normalized |-> frame[t].text_normalized,
             i |-> frame[t].i + 1]]
    /\ UNCHANGED <<shared, service, single, pc, tcall, tret>>

\* extract_skills, the return statement after the loop.
ExtractReturns(t) ==
    /\ pc[t] = "loop"
    /\ tcall[t].fn = "extract_skills"
    /\ frame[t].i > Len(skills_database)
    /\ ThreadReturns(t, ExtractReturn(LocalFound(t), hashseed))
    /\ UNCHANGED <<shared, service, single, tcall, frame>>

\* calculate_match, the two sets and their intersection and difference.
MatchCompares(t) ==
    /\ pc[t] = "entered"
    /\ tcall[t].fn = "calculate_match"
    /\ frame' = [frame EXCEPT ![t] =
            [fn |-> "calculate_match",
             matched_lower |-> MatchedLower(LowerSet(tcall[t].jd_skills),
                                            LowerSet(tcall[t].resume_skills)),
             missing_lower |-> MissingLower(LowerSet(tcall[t].jd_skills),
                                            LowerSet(tcall[t].resume_skills))]]
    /\ pc' = [pc EXCEPT ![t] = "compared"]
    /\ UNCHANGED <<shared, service, single, tcall, tret>>

\* calculate_match, the score and the two lists in the casing of jd_skills.
MatchRestores(t) ==
    /\ pc[t] = "compared"
    /\ frame' = [frame EXCEPT ![t] =
            [fn |-> "calculate_match",
             score |-> Score(frame[t].matched_lower, tcall[t].jd_skills),
             matched_skills |-> RestoreCasing(JdSkillMap(tcall[t].jd_skills),
                                              frame[t].matched_lower, hashseed),
             missing_skills |-> RestoreCasing(JdSkillMap(tcall[t].jd_skills),
                                              frame[t].missing_lower, hashseed)]]
    /\ pc' = [pc EXCEPT ![t] = "restored"]
    /\ UNCHANGED <<shared, service, single, tcall, tret>>

\* calculate_match, the return statement.
MatchReturns(t) ==
    /\ pc[t] = "restored"
    /\ ThreadReturns(t, MatchResult(frame[t].matched_skills, frame[t].missing_skills,
                                    frame[t].score, tcall[t].jd_skills))
    /\ UNCHANGED <<shared, service, single, tcall, frame>>

\* get_skill_suggestions, up to the start of the loop.
SuggestBegins(t) ==
    /\ pc[t] = "entered"
    /\ tcall[t].fn = "get_skill_suggestions"
    /\ frame' = [frame EXCEPT ![t] =
            [fn |-> "get_skill_suggestions", suggestions |-> <<>>, i |-> 1]]
    /\ pc' = [pc EXCEPT ![t] = "suggesting"]
    /\ UNCHANGED <<shared, service, single, tcall, tret>>

\* get_skill_suggestions, one iteration of the loop over missing_skills.
SuggestIterates(t) ==
    /\ pc[t] = "suggesting"
    /\ frame[t].i <= Len(tcall[t].missing_skills)
    /\ frame' = [frame EXCEPT ![t] =
            [fn |-> "get_skill_suggestions",
             suggestions |-> SuggestBody(frame[t].suggestions,
                                         tcall[t].missing_skills[frame[t].i]),
             i |-> frame[t].i + 1]]
    /\ UNCHANGED <<shared, service, single, pc, tcall, tret>>

\* get_skill_suggestions, the return statement after the loop.
SuggestReturns(t) ==
    /\ pc[t] = "suggesting"
    /\ frame[t].i > Len(tcall[t].missing_skills)
    /\ ThreadReturns(t, frame[t].suggestions)
    /\ UNCHANGED <<shared, service, single, tcall, frame>>

NextThreads ==
    \E t \in Threads :
        \/ ThreadEnters(t)
        \/ ExtractBegins(t)
        \/ ExtractIterates(t)
        \/ ExtractReturns(t)
        \/ MatchCompares(t)
        \/ MatchRestores(t)
        \/ MatchReturns(t)
        \/ SuggestBegins(t)
        \/ SuggestIterates(t)
        \/ SuggestReturns(t)

SpecThreads == InitThreads /\ [][NextThreads]_vars

(***************************************************************************)
(* The match service: routes.analysis and models.analysis                  *)
(*                                                                         *)
(* A JSON value is a record of its Python type and its content v: the      *)
(* characters of a str, the strings of a list, the number of an int in a   *)
(* one-element tuple.  A JSON object is a record, its keys the fields.     *)
(***************************************************************************)

PyNone == [type |-> "NoneType", v |-> <<>>]

PyStr(s) == [type |-> "str", v |-> s]

PyList(xs) == [type |-> "list", v |-> xs]

PyInt(n) == [type |-> "int", v |-> <<n>>]

PyFalse == [type |-> "bool", v |-> <<0>>]

PyTrue == [type |-> "bool", v |-> <<1>>]

\* bool(x)
Truthy(x) ==
    IF x.type = "NoneType" THEN FALSE
    ELSE IF x.type \in {"str", "list"} THEN Len(x.v) > 0
    ELSE x.v[1] # 0

\* a or b
Or(a, b) == IF Truthy(a) THEN a ELSE b

\* request.get_json() gave None.
JsonNull == [json_null |-> TRUE]

\* not data
DataFalsy(data) == data = JsonNull \/ DOMAIN data = {}

\* data.get(key, default)
DataGet(data, key, default) == IF key \in DOMAIN data THEN data[key] ELSE default

\* s.lstrip()
RECURSIVE lstrip(_)
lstrip(s) == IF Len(s) > 0 /\ IsSpaceChar(s[1]) THEN lstrip(Tail(s)) ELSE s

\* s.rstrip()
RECURSIVE rstrip(_)
rstrip(s) ==
    IF Len(s) > 0 /\ IsSpaceChar(s[Len(s)]) THEN rstrip(SubSeq(s, 1, Len(s) - 1)) ELSE s

\* s.strip()
strip(s) == rstrip(lstrip(s))

\* s.split(','), from position i on, part being the item read so far.
RECURSIVE SplitComma(_, _, _)
SplitComma(s, i, part) ==
    IF i > Len(s) THEN <<part>>
    ELSE IF s[i] = "," THEN <<part>> \o SplitComma(s, i + 1, <<>>)
    ELSE SplitComma(s, i + 1, Append(part, s[i]))

\* [s.strip() for s in resume_skills.split(',') if s.strip()]
CommaSeparated(s) ==
    LET parts == SplitComma(s, 1, <<>>)
    IN  SelectSeq([i \in DOMAIN parts |-> strip(parts[i])], LAMBDA x : Len(x) > 0)

\* resume_skills after the three field names were tried.
ResumeSkillsField(data) ==
    IF "resume_skills" \in DOMAIN data THEN data["resume_skills"]
    ELSE IF "skills" \in DOMAIN data THEN data["skills"]
    ELSE IF "resumeSkills" \in DOMAIN data THEN data["resumeSkills"]
    ELSE PyNone

\* job_description after the three field names were tried.
JobDescriptionField(data) ==
    IF "job_description" \in DOMAIN data THEN data["job_description"]
    ELSE IF "jobDescription" \in DOMAIN data THEN data["jobDescription"]
    ELSE IF "description" \in DOMAIN data THEN data["description"]
    ELSE PyNone

\* data.get('resume_text', '') or data.get('resumeText', '') or
\* data.get('text', '') or data.get('extractedText', '')
ResumeTextField(data) ==
    Or(Or(Or(DataGet(data, "resume_text", PyStr(<<>>)),
             DataGet(data, "resumeText", PyStr(<<>>))),
          DataGet(data, "text", PyStr(<<>>))),
       DataGet(data, "extractedText", PyStr(<<>>)))

\* The texts the requests hand to extract_skills.
ServiceTexts ==
    { <<"P","y","t","h","o","n"," ","a","n","d"," ","J","a","v","a">>,
      <<"I"," ","u","s","e"," ","J","a","v","a"," ","d","a","i","l","y">>,
      <<"I"," ","l","o","v","e"," ","J","a","v","a","S","c","r","i","p","t">>,
      <<"J","a","v","a","S","c","r","i","p","t">>,
      <<"P","y","t","h","o","n">>,
      <<"J","a","v","a">>,
      <<"!","!","!">> }

\* What extract_skills returns for the texts of the requests while the catalog
\* global is the list literal, per hash seed.
ExtractTable ==
    [seed \in HashSeeds |->
        [text \in ServiceTexts |-> ExtractSkillsIn(text, SKILLS_DATABASE, seed)]]

\* extract_skills(x) for a JSON value x: a falsy x returns [], a str is
\* searched, any other value has no lower().
ExtractValue(x) ==
    IF ~Truthy(x) THEN Return(<<>>)
    ELSE IF x.type # "str" THEN Raise("AttributeError")
    ELSE IF skills_database = SKILLS_DATABASE /\ x.v \in ServiceTexts
    THEN ExtractTable[hashseed][x.v]
    ELSE extract_skills(x.v)

\* What analyze_match has when it leaves before the save: the answer.
Answer(status, body) == [go |-> FALSE, status |-> status, body |-> body]

\* The answer of the handler's "except Exception as e".
AnalysisFailed(e) ==
    Answer(500, [success |-> FALSE, message |-> <<"Analysis failed: ", e>>])

\* ', '.join(missing_fields)
RECURSIVE JoinComma(_)
JoinComma(xs) ==
    IF Len(xs) = 0 THEN <<>>
    ELSE IF Len(xs) = 1 THEN xs
    ELSE <<Head(xs), ", ">> \o JoinComma(Tail(xs))

\* missing_fields for the resume_skills and the job_description at hand.
MissingFields(resume_skills, job_description) ==
    (IF ~Truthy(resume_skills) THEN <<"resume_skills (or skills)">> ELSE <<>>)
    \o (IF ~Truthy(job_description) THEN <<"job_description (or jobDescription)">> ELSE <<>>)

\* analyze_match from the matching on: the skills of the job description, the
\* match, the suggestions, and the values the save and the response need.
MatchStage(data, resume_text, resume_skills, job_description) ==
    LET jd_skills == ExtractValue(job_description)
    IN  IF jd_skills.exc # "" THEN AnalysisFailed(jd_skills.exc)
        ELSE LET match_result == calculate_match(resume_skills, jd_skills.value)
             IN  IF match_result.exc # "" THEN AnalysisFailed(match_result.exc)
                 ELSE [go |-> TRUE,
                       resume_text |-> resume_text,
                       resume_skills |-> resume_skills,
                       job_description |-> job_description,
                       jd_skills |-> jd_skills.value,
                       match_result |-> match_result.value,
                       suggestions |->
                          IF Truthy(DataGet(data, "include_suggestions", PyFalse))
                          THEN get_skill_suggestions(match_result.value.missing_skills)
                          ELSE <<>>]

\* analyze_match from the required-fields check on, resume_skills being what
\* the request or the resume text gave.
ValidateStage(data, resume_text, resume_skills, job_description) ==
    IF Len(MissingFields(resume_skills, job_description)) > 0
    THEN Answer(400, [success |-> FALSE,
                      message |-> <<"Missing required fields: ">>
                                    \o JoinComma(MissingFields(resume_skills, job_description)),
                      debug_info |-> [received_keys |-> DOMAIN data]])
    ELSE IF resume_skills.type = "list"
    THEN MatchStage(data, resume_text, resume_skills.v, job_description)
    ELSE IF resume_skills.type = "str"
    THEN MatchStage(data, resume_text, CommaSeparated(resume_skills.v), job_description)
    ELSE Answer(400, [success |-> FALSE,
                      message |-> <<"resume_skills must be a list or comma-separated string">>])

\* analyze_match up to the save: the answer it leaves with, or what it goes on
\* to save and answer.
AnalyzeMatchStage(data) ==
    IF DataFalsy(data)
    THEN Answer(400, [success |-> FALSE,
                      message |-> <<"No data provided. Please send JSON with 'resume_skills' and 'job_description' fields.">>,
                      debug_info |-> [has_data |-> FALSE]])
    ELSE IF ~Truthy(ResumeSkillsField(data)) /\ Truthy(ResumeTextField(data))
    THEN IF ExtractValue(ResumeTextField(data)).exc # ""
         THEN AnalysisFailed(ExtractValue(ResumeTextField(data)).exc)
         ELSE ValidateStage(data, ResumeTextField(data),
                            PyList(ExtractValue(ResumeTextField(data)).value),
                            JobDescriptionField(data))
    ELSE ValidateStage(data, ResumeTextField(data), ResumeSkillsField(data),
                       JobDescriptionField(data))

\* AnalysisModel(): the object __init__ leaves, self.collection being
\* db['analyses'] when MongoClient(...) returned and None when it raised;
\* id tells the object from every other object.
AnalysisModel(connects, id) ==
    [type |-> "AnalysisModel",
     collection |-> IF connects THEN "analyses" ELSE "None",
     id |-> id]

\* get_analysis_model(): the object returned, which is the global afterwards.
get_analysis_model(connects) ==
    IF _analysis_model = ModelNone
    THEN AnalysisModel(connects, constructed + 1)
    ELSE _analysis_model

\* get_analysis_model() has run as a whole and returned model: the global
\* holds it, and it is a new object when the global was None.
ModelGot(model) ==
    /\ _analysis_model' = model
    /\ constructed' = IF _analysis_model = ModelNone THEN constructed + 1 ELSE constructed

\* "if not self.collection" raises: bool() of a pymongo Collection raises
\* NotImplementedError in the versions that define Collection.__bool__.
TruthTestRaises(model) == model.collection # "None" /\ collection_bool = "raises"

\* The document create_analysis builds at time now.
Document(data, now) ==
    [resume_text |-> data.resume_text,
     resume_skills |-> data.resume_skills,
     job_description |-> data.job_description,
     jd_skills |-> data.jd_skills,
     matched_skills |-> data.matched_skills,
     missing_skills |-> data.missing_skills,
     score |-> data.score,
     created_at |-> now,
     updated_at |-> now]

\* model.create_analysis(data): the inserted _id, or the exception raised;
\* inserts tells whether insert_one stores the document or raises.
create_analysis(model, data, inserts) ==
    IF model.collection = "None" THEN Raise("Exception")
    ELSE IF TruthTestRaises(model) THEN Raise("NotImplementedError")
    ELSE IF ~inserts THEN Raise("PyMongoError")
    ELSE Return(last_id + 1)

\* analysis_data, from what the matching left.
AnalysisData(stage) ==
    [resume_text |-> stage.resume_text,
     resume_skills |-> stage.resume_skills,
     job_description |-> stage.job_description,
     jd_skills |-> stage.jd_skills,
     matched_skills |-> stage.match_result.matched_skills,
     missing_skills |-> stage.match_result.missing_skills,
     score |-> stage.match_result.score]

\* The save, had no try statement stood around it.
AfterSave_Propagates(created) ==
    IF created.exc = ""
    THEN [exc |-> "", analysis_id |-> PyStr(<<created.value>>), db_error |-> ""]
    ELSE [exc |-> created.exc, analysis_id |-> PyNone, db_error |-> ""]

\* "analysis_id = None; try: ... except Exception as db_error": analysis_id
\* and db_error after the statement, and the exception that leaves it.
AfterSave(created) ==
    IF created.exc = ""
    THEN [exc |-> "", analysis_id |-> PyStr(<<created.value>>), db_error |-> ""]
    ELSE [exc |-> "", analysis_id |-> PyNone, db_error |-> created.exc]

\* 'analysis_id' in locals(): analysis_id was assigned before the try.
AnalysisIdInLocals == TRUE

\* The response dict of a match that reached the save.
MatchResponse(stage, analysis_id) ==
    [success |-> TRUE,
     score |-> stage.match_result.score,
     matched_skills |-> stage.match_result.matched_skills,
     missing_skills |-> stage.match_result.missing_skills,
     jd_skills |-> stage.jd_skills,
     total_jd_skills |-> stage.match_result.total_jd_skills,
     total_matched |-> stage.match_result.total_matched,
     message |-> <<"Match score: ", stage.match_result.score, "%">>]
    @@ (IF AnalysisIdInLocals THEN [analysis_id |-> analysis_id] ELSE <<>>)
    @@ (IF Len(stage.suggestions) > 0 THEN [suggestions |-> stage.suggestions] ELSE <<>>)

\* The most requests the service answers in a run.
MaxRequests == 2

\* The JSON bodies of the match requests, one after the other: none, an empty object, the fields
\* under each of their names, resume skills as a list, as a comma-separated
\* string, as a string of separators only, as a number, absent, empty, taken
\* from the resume text, a job description that is not a string, and one that
\* names no skill.
Bodies ==
    << JsonNull,
      <<>>,
      [resume_skills |-> PyList(<<<<"P","y","t","h","o","n">>>>), job_description |-> PyStr(<<"P","y","t","h","o","n"," ","a","n","d"," ","J","a","v","a">>)],
      [skills |-> PyList(<<<<"j","a","v","a">>, <<"S","Q","L">>>>), jobDescription |-> PyStr(<<"I"," ","u","s","e"," ","J","a","v","a"," ","d","a","i","l","y">>), include_suggestions |-> PyTrue],
      [resume_text |-> PyStr(<<"I"," ","l","o","v","e"," ","J","a","v","a","S","c","r","i","p","t">>), job_description |-> PyStr(<<"J","a","v","a","S","c","r","i","p","t">>)],
      [resume_skills |-> PyStr(<<"P","y","t","h","o","n",","," ","S","Q","L">>), description |-> PyStr(<<"P","y","t","h","o","n">>)],
      [resume_skills |-> PyStr(<<",">>), job_description |-> PyStr(<<"J","a","v","a">>)],
      [resume_skills |-> PyInt(5), job_description |-> PyStr(<<"J","a","v","a">>)],
      [resume_skills |-> PyList(<<<<"P","y","t","h","o","n">>>>)],
      [resume_skills |-> PyList(<<>>), resume_text |-> PyStr(<<>>), job_description |-> PyStr(<<"J","a","v","a">>)],
      [resume_skills |-> PyList(<<<<"P","y","t","h","o","n">>>>), job_description |-> PyList(<<<<"J","a","v","a">>>>)],
      [resumeSkills |-> PyList(<<<<"G","o">>>>), job_description |-> PyStr(<<"!","!","!">>)] >>

\* Whether MongoClient(...) returns or raises, where an AnalysisModel is built.
Connects == IF _analysis_model = ModelNone THEN BOOLEAN ELSE {TRUE}

\* An analysis_id of a request path that is no ObjectId: ObjectId(...) raises.
BadId == 0

\* The analysis ids of the request paths: an id stands for its hex string.
RequestIds == {BadId} \cup (1..MaxRequests)

\* The limit and skip arguments of the history requests.
Limits == {0, 1}

Skips == {-1, 1}

\* The ids of the documents, the newest created_at first.
RECURSIVE NewestFirst(_)
NewestFirst(ids) ==
    IF ids = {} THEN <<>>
    ELSE LET newest == CHOOSE i \in ids :
                            \A j \in ids : analyses[j].created_at <= analyses[i].created_at
         IN  <<newest>> \o NewestFirst(ids \ {newest})

\* A document as get_analysis and get_all_analyses hand it out: _id as a str.
Presented(id) == analyses[id] @@ [_id |-> PyStr(<<id>>)]

\* find().sort("created_at", DESCENDING).skip(skip).limit(limit), presented.
Page(limit, skip) ==
    LET ids == NewestFirst(DOMAIN analyses)
        last == IF skip + limit < Len(ids) THEN skip + limit ELSE Len(ids)
    IN  [i \in 1..(IF last > skip THEN last - skip ELSE 0) |-> Presented(ids[skip + i])]

\* round(avg, 2) of the scores, in hundredths of a percent: both neighbours
\* when the average lies halfway between them, as the float decides which.
AvgScores(ids) ==
    LET RECURSIVE Sum(_)
        Sum(S) == IF S = {} THEN 0
                  ELSE LET i == CHOOSE i \in S : TRUE IN analyses[i].score + Sum(S \ {i})
        n == Cardinality(ids)
        q == Sum(ids) \div n
        r == Sum(ids) % n
    IN  IF 2 * r < n THEN {q} ELSE IF 2 * r > n THEN {q + 1} ELSE {q, q + 1}

\* The maximum of a non-empty set of numbers.
Max(S) == CHOOSE x \in S : \A y \in S : y <= x

\* The minimum of a non-empty set of numbers.
Min(S) == CHOOSE x \in S : \A y \in S : x <= y

ZeroStatistics == [total_analyses |-> 0, avg_score |-> 0, max_score |-> 0, min_score |-> 0]

\* The process serves requests: app.py has imported the routes, and with them
\* utils.skill_matcher and pymongo; no AnalysisModel is built yet.
InitService ==
    /\ loaded = TRUE
    /\ skills_database = SKILLS_DATABASE
    /\ skills_lookup = SKILLS_LOOKUP
    /\ log = <<>>
    /\ hashseed \in HashSeeds
    /\ call = NoCall
    /\ returned = FALSE
    /\ ret = <<>>
    /\ exc = ""
    /\ pc = [t \in Threads |-> "idle"]
    /\ tcall = [t \in Threads |-> NoCall]
    /\ frame = [t \in Threads |-> NoFrame]
    /\ tret = [t \in Threads |-> <<>>]
    /\ _analysis_model = ModelNone
    /\ constructed = 0
    /\ analyses = <<>>
    /\ last_id = 0
    /\ collection_bool \in {"raises", "true"}
    /\ handled = 0
    /\ request = NoRequest
    /\ response = NoResponse
    /\ db_error = ""

\* The handler has answered the request req with status and body.
Answers(req, status, body) ==
    /\ handled' = handled + 1
    /\ request' = req
    /\ response' = [status |-> status, body |-> body]

\* POST /analyze-match: analyze_match, from the request to the response.
AnalyzeMatch ==
    /\ handled < MaxRequests
    /\ \E body \in DOMAIN Bodies, connects \in Connects, inserts \in BOOLEAN :
        LET data == Bodies[body]
            stage == AnalyzeMatchStage(data)
            req == [route |-> "analyze_match", data |-> data]
        IN  IF ~stage.go
            THEN /\ Answers(req, stage.status, stage.body)
                 /\ db_error' = ""
                 /\ UNCHANGED <<_analysis_model, constructed, analyses, last_id>>
            ELSE LET model == get_analysis_model(connects)
                     created == create_analysis(model, AnalysisData(stage), inserts)
                     saved == AfterSave(created)
                 IN  /\ ModelGot(model)
                     /\ IF created.exc = ""
                        THEN /\ analyses' = analyses @@
                                    (created.value :> Document(AnalysisData(stage), handled + 1))
                             /\ last_id' = created.value
                        ELSE UNCHANGED <<analyses, last_id>>
                     /\ db_error' = saved.db_error
                     /\ IF saved.exc # ""
                        THEN Answers(req, 500, AnalysisFailed(saved.exc).body)
                        ELSE Answers(req, 200, MatchResponse(stage, saved.analysis_id))
    /\ UNCHANGED <<shared, single, threaded, collection_bool>>

\* GET /analysis-history: get_analysis_history with get_all_analyses; finds
\* tells whether the query answers or raises.
GetAnalysisHistory ==
    /\ handled < MaxRequests
    /\ \E limit_arg \in Limits, skip_arg \in Skips, connects \in Connects, finds \in BOOLEAN :
        LET limit == IF limit_arg < 1 \/ limit_arg > 100 THEN 10 ELSE limit_arg
            skip == IF skip_arg < 0 THEN 0 ELSE skip_arg
            model == get_analysis_model(connects)
            req == [route |-> "get_analysis_history", limit |-> limit_arg, skip |-> skip_arg]
            found == IF model.collection = "None" \/ ~finds THEN <<>> ELSE Page(limit, skip)
        IN  /\ ModelGot(model)
            /\ IF TruthTestRaises(model)
               THEN Answers(req, 503,
                        [success |-> FALSE,
                         message |-> <<"Database connection failed. Please ensure MongoDB is running.">>])
               ELSE Answers(req, 200,
                        [success |-> TRUE, analyses |-> found, limit |-> limit,
                         skip |-> skip, count |-> Len(found)])
    /\ db_error' = ""
    /\ UNCHANGED <<shared, single, threaded, collection_bool, analyses, last_id>>

\* GET /analysis/<analysis_id>: the route get_analysis with the model's
\* get_analysis; finds tells whether find_one answers or raises.
GetAnalysis ==
    /\ handled < MaxRequests
    /\ \E analysis_id \in RequestIds, connects \in Connects, finds \in BOOLEAN :
        LET model == get_analysis_model(connects)
            req == [route |-> "get_analysis", analysis_id |-> analysis_id]
        IN  /\ ModelGot(model)
            /\ IF TruthTestRaises(model)
               THEN Answers(req, 500,
                        [success |-> FALSE,
                         message |-> <<"Failed to retrieve analysis: ", "NotImplementedError">>])
               ELSE IF /\ model.collection # "None"
                       /\ analysis_id # BadId
                       /\ finds
                       /\ analysis_id \in DOMAIN analyses
               THEN Answers(req, 200, [success |-> TRUE, analysis |-> Presented(analysis_id)])
               ELSE Answers(req, 404, [success |-> FALSE, message |-> <<"Analysis not found">>])
    /\ db_error' = ""
    /\ UNCHANGED <<shared, single, threaded, collection_bool, analyses, last_id>>

\* DELETE /analysis/<analysis_id>: the route delete_analysis with the model's
\* delete_analysis; deletes tells whether delete_one answers or raises.
DeleteAnalysis ==
    /\ handled < MaxRequests
    /\ \E analysis_id \in RequestIds, connects \in Connects, deletes \in BOOLEAN :
        LET model == get_analysis_model(connects)
            req == [route |-> "delete_analysis", analysis_id |-> analysis_id]
            deleted == /\ ~TruthTestRaises(model)
                       /\ model.collection # "None"
                       /\ analysis_id # BadId
                       /\ deletes
                       /\ analysis_id \in DOMAIN analyses
        IN  /\ ModelGot(model)
            /\ analyses' = IF deleted
                           THEN [id \in DOMAIN analyses \ {analysis_id} |-> analyses[id]]
                           ELSE analyses
            /\ IF TruthTestRaises(model)
               THEN Answers(req, 500,
                        [success |-> FALSE,
                         message |-> <<"Failed to delete analysis: ", "NotImplementedError">>])
               ELSE IF deleted
               THEN Answers(req, 200,
                        [success |-> TRUE, message |-> <<"Analysis deleted successfully">>])
               ELSE Answers(req, 404, [success |-> FALSE, message |-> <<"Analysis not found">>])
    /\ db_error' = ""
    /\ UNCHANGED <<shared, single, threaded, collection_bool, last_id>>

\* GET /statistics: the route get_statistics with the model's get_statistics;
\* aggregates tells whether the aggregation answers or raises.
GetStatistics ==
    /\ handled < MaxRequests
    /\ \E connects \in Connects, aggregates \in BOOLEAN :
        LET model == get_analysis_model(connects)
            req == [route |-> "get_statistics"]
            ids == DOMAIN analyses
        IN  /\ ModelGot(model)
            /\ IF TruthTestRaises(model)
               THEN Answers(req, 500,
                        [success |-> FALSE,
                         message |-> <<"Failed to retrieve statistics: ", "NotImplementedError">>])
               ELSE IF model.collection = "None"
               THEN Answers(req, 200, [success |-> TRUE, statistics |-> ZeroStatistics])
               ELSE IF ~aggregates
               THEN Answers(req, 200, [success |-> TRUE, statistics |-> <<>>])
               ELSE IF ids = {}
               THEN Answers(req, 200, [success |-> TRUE, statistics |-> ZeroStatistics])
               ELSE \E avg \in AvgScores(ids) :
                        Answers(req, 200,
                            [success |-> TRUE,
                             statistics |->
                                [total_analyses |-> Cardinality(ids),
                                 avg_score |-> avg,
                                 max_score |-> Max({analyses[i].score : i \in ids}),
                                 min_score |-> Min({analyses[i].score : i \in ids})]])
    /\ db_error' = ""
    /\ UNCHANGED <<shared, single, threaded, collection_bool, analyses, last_id>>

NextService ==
    \/ AnalyzeMatch
    \/ GetAnalysisHistory
    \/ GetAnalysis
    \/ DeleteAnalysis
    \/ GetStatistics

SpecService == InitService /\ [][NextService]_vars

(***************************************************************************)
(* get_analysis_model under concurrent requests: each request thread runs   *)
(* the function statement by statement, and the threads interleave.         *)
(***************************************************************************)

\* The calls of get_analysis_model that are under way.
UnderWay == {t \in Threads : pc[t] \notin {"idle", "done"}}

\* A request thread calls get_analysis_model().
ModelCallEnters(t) ==
    /\ pc[t] \in {"idle", "done"}
    /\ handled + Cardinality(UnderWay) < MaxRequests
    /\ tcall' = [tcall EXCEPT ![t] = [fn |-> "get_analysis_model"]]
    /\ frame' = [frame EXCEPT ![t] = [fn |-> "get_analysis_model"]]
    /\ pc' = [pc EXCEPT ![t] = "entered"]
    /\ UNCHANGED <<shared, single, service, tret>>

\* "if _analysis_model is None"
ModelCallTests(t) ==
    /\ pc[t] = "entered"
    /\ tcall[t].fn = "get_analysis_model"
    /\ pc' = [pc EXCEPT ![t] =
            IF _analysis_model = ModelNone THEN "constructing" ELSE "returning"]
    /\ UNCHANGED <<shared, single, service, tcall, frame, tret>>

\* "AnalysisModel()": the right-hand side of the assignment, a new object.
ModelCallConstructs(t) ==
    /\ pc[t] = "constructing"
    /\ \E connects \in BOOLEAN :
        frame' = [frame EXCEPT ![t] =
            [fn |-> "get_analysis_model",
             value |-> AnalysisModel(connects, constructed + 1)]]
    /\ constructed' = constructed + 1
    /\ pc' = [pc EXCEPT ![t] = "assigning"]
    /\ UNCHANGED <<shared, single, tcall, tret, _analysis_model, analyses, last_id,
                   collection_bool, handled, request, response, db_error>>

\* "_analysis_model = ...": the global is bound to the new object.
ModelCallAssigns(t) ==
    /\ pc[t] = "assigning"
    /\ _analysis_model' = frame[t].value
    /\ pc' = [pc EXCEPT ![t] = "returning"]
    /\ UNCHANGED <<shared, single, tcall, frame, tret, constructed, analyses, last_id,
                   collection_bool, handled, request, response, db_error>>

\* "return _analysis_model"
ModelCallReturns(t) ==
    /\ pc[t] = "returning"
    /\ ThreadReturns(t, _analysis_model)
    /\ handled' = handled + 1
    /\ UNCHANGED <<shared, single, tcall, frame, _analysis_model, constructed, analyses,
                   last_id, collection_bool, request, response, db_error>>

NextModelCalls ==
    \E t \in Threads :
        \/ ModelCallEnters(t)
        \/ ModelCallTests(t)
        \/ ModelCallConstructs(t)
        \/ ModelCallAssigns(t)
        \/ ModelCallReturns(t)

SpecModelCalls == InitService /\ [][NextModelCalls]_vars

(***************************************************************************)
(* Properties of extract_skills                                            *)
(***************************************************************************)

\* The call under study was extract_skills and has ended.
ExtractReturned == returned /\ call.fn = "extract_skills"

\* The call under study was extract_skills of a str, and has ended.
ExtractedText == ExtractReturned /\ call.text # None

InList(x, xs) == \E i \in DOMAIN xs : xs[i] = x

\* sub is at offset i of s.
OccursAt(sub, s, i) ==
    /\ i + Len(sub) <= Len(s)
    /\ \A k \in 1..Len(sub) : s[i + k] = sub[k]

\* sub is in s as a token of its own between whitespace or the ends of s.
StandaloneToken(sub, s) ==
    \E i \in 0..Len(s) :
        /\ OccursAt(sub, s, i)
        /\ (i = 0 \/ IsSpaceChar(s[i]))
        /\ (i + Len(sub) = Len(s) \/ IsSpaceChar(s[i + Len(sub) + 1]))

\* The non-empty sub is in s at a place where no word character comes right
\* before it or right after it.
WordBounded(sub, s) ==
    /\ sub # <<>>
    /\ \E i \in 0..Len(s) :
        /\ OccursAt(sub, s, i)
        /\ (i = 0 \/ ~IsWordChar(s[i]))
        /\ (i + Len(sub) = Len(s) \/ ~IsWordChar(s[i + Len(sub) + 1]))

Skill_CPP == <<"C","+","+">>
Skill_CSharp == <<"C","#">>
Skill_DotNet == <<".","N","E","T">>
Skill_C == <<"C">>
Skill_Java == <<"J","a","v","a">>
Skill_JavaScript == <<"J","a","v","a","S","c","r","i","p","t">>
Skill_React == <<"R","e","a","c","t">>
Skill_ReactJs == <<"R","e","a","c","t",".","j","s">>
Skill_NodeJs == <<"N","o","d","e",".","j","s">>
Skill_GraphQL == <<"G","r","a","p","h","Q","L">>
Skill_DynamoDB == <<"D","y","n","a","m","o","D","B">>

Text_LoveJavaScript == <<"I"," ","l","o","v","e"," ","J","a","v","a","S","c","r","i","p","t">>
Text_UseJavaDaily == <<"I"," ","u","s","e"," ","J","a","v","a"," ","d","a","i","l","y">>
Text_UseReact == <<"I"," ","u","s","e"," ","R","e","a","c","t"," ","f","o","r"," ","f","r","o","n","t","e","n","d">>
Text_HelloWorld == <<"h","e","l","l","o"," ","w","o","r","l","d">>
Text_Node == <<"N","o","d","e">>
Text_GraphQLDynamoDB == <<"G","r","a","p","h","Q","L"," ","a","n","d"," ","D","y","n","a","m","o","D","B">>

\* C1: whenever "C++", "C#" or ".NET" stands in the text (in any casing) as a
\* token of its own between whitespace or the ends of the text, the result
\* of extract_skills contains that catalog entry.
C1_PunctuationEntriesRecognized ==
    ExtractedText =>
        \A e \in {Skill_CPP, Skill_CSharp, Skill_DotNet} :
            StandaloneToken(lower(e), lower(call.text)) => InList(e, ret)

\* C2: the exact-match rule reports an entry only when the normalized text
\* holds the lowercased entry at a place where no word character comes right
\* before or right after it; "I love JavaScript" does not yield "Java", and
\* "I use Java daily" yields "Java" and not "JavaScript".
C2_WordBoundaryMatching ==
    ExtractedText =>
        /\ \A i \in DOMAIN skills_database :
            ExactMatch(skills_database[i], Normalized(call.text))
                => WordBounded(lower(skills_database[i]), Normalized(call.text))
        /\ call.text = Text_LoveJavaScript => ~InList(Skill_Java, ret)
        /\ call.text = Text_UseJavaDaily =>
            InList(Skill_Java, ret) /\ ~InList(Skill_JavaScript, ret)

\* C3: an entry is in the result only if its lowercased form is in the
\* normalized text as a word-bounded token, or it has a '.' and the non-empty
\* part before its first '.' is; "hello world" yields the empty list.
C3_OnlyPresentSkills ==
    ExtractedText =>
        /\ \A i \in DOMAIN ret :
            \/ WordBounded(lower(ret[i]), Normalized(call.text))
            \/ /\ HasDot(ret[i])
               /\ WordBounded(SplitDotFirst(lower(ret[i])), Normalized(call.text))
        /\ call.text = Text_HelloWorld => ret = <<>>

\* C4: for every catalog entry with a '.', if the part before its first '.'
\* is in the normalized text as a word-bounded token of its own, the entry is
\* in the result, also when its dotted form is not in the text; "Node" yields
\* "Node.js", and "I use React for frontend" yields "React" and "React.js".
C4_DottedPropagation ==
    ExtractedText =>
        /\ \A i \in DOMAIN skills_database :
            (/\ HasDot(skills_database[i])
             /\ WordBounded(SplitDotFirst(lower(skills_database[i])), Normalized(call.text)))
                => InList(skills_database[i], ret)
        /\ call.text = Text_Node => InList(Skill_NodeJs, ret)
        /\ call.text = Text_UseReact =>
            InList(Skill_React, ret) /\ InList(Skill_ReactJs, ret)

\* "Node" alone was extracted: "Node.js" is reported though "node.js" is not
\* in the text.
C4_Witness ==
    /\ ExtractedText
    /\ call.text = Text_Node
    /\ ~ExactMatch(Skill_NodeJs, Normalized(call.text))
    /\ InList(Skill_NodeJs, ret)

\* C5: the list extract_skills returns holds only catalog entries, holds
\* none twice, and is in ascending code-point order.
C5_CatalogSubsetSortedUnique ==
    ExtractReturned =>
        /\ \A i \in DOMAIN ret : \E j \in DOMAIN skills_database : ret[i] = skills_database[j]
        /\ \A i \in DOMAIN ret : \A j \in DOMAIN ret : i < j => StrLess(ret[i], ret[j])

\* A text naming two entries that the catalog lists twice was extracted, and
\* three skills came back.
C5_Witness ==
    /\ ExtractedText
    /\ call.text = Text_GraphQLDynamoDB
    /\ Len(ret) = 3
    /\ InList(Skill_GraphQL, ret)
    /\ InList(Skill_DynamoDB, ret)

\* C6: extract_skills of the empty string or of None returns the empty list
\* and raises nothing.
C6_EmptyOrNoneYieldsEmpty ==
    (ExtractReturned /\ (call.text = None \/ call.text = <<>>))
        => (ret = <<>> /\ exc = "")

\* extract_skills(None) has returned.
C6_Witness == ExtractReturned /\ call.text = None /\ ret = <<>> /\ exc = ""

(***************************************************************************)
(* Properties of the catalog                                               *)
(***************************************************************************)

\* Two positions of the catalog list hold entries with the same lowercase key.
HasCollision(database) ==
    Cardinality({lower(database[i]) : i \in DOMAIN database}) < Len(database)

\* C8: no two positions of the catalog hold entries that lowercase to the
\* same key, so the lookup has as many keys as the catalog has entries.
C8_CatalogKeysUnique ==
    loaded =>
        /\ ~HasCollision(skills_database)
        /\ Cardinality(DOMAIN skills_lookup) = Len(skills_database)

\* C9: when two entries of the catalog lowercase to the same key, building
\* the lookup logs the collision, the later entry wins, and the import ends.
C9_CollisionLoggedLastWins ==
    (loaded /\ HasCollision(skills_database)) =>
        /\ \E i \in DOMAIN log : log[i].event = "duplicate skill key"
        /\ \A i \in DOMAIN skills_database :
            (\A j \in (i + 1)..Len(skills_database) :
                lower(skills_database[j]) # lower(skills_database[i]))
                => skills_lookup[lower(skills_database[i])] = skills_database[i]

\* C23: extract_skills, handed a text that is one entry of the catalog and
\* nothing else, returns a list that holds that entry.
C23_EveryEntryRecognizedAlone ==
    (ExtractReturned /\ InList(call.text, skills_database))
        => InList(call.text, ret)

(***************************************************************************)
(* Properties of calculate_match                                           *)
(***************************************************************************)

\* The call under study was calculate_match and has ended.
MatchReturned == returned /\ call.fn = "calculate_match"

\* k is the lowercase of some string of the list xs.
InListLower(k, xs) == \E i \in DOMAIN xs : lower(xs[i]) = k

Skill_Python == <<"P","y","t","h","o","n">>
Skill_python == <<"p","y","t","h","o","n">>
Skill_SQL == <<"S","Q","L">>

\* C10: every distinct lowercased JD skill is, compared without case, in
\* exactly one of matched_skills and missing_skills, in matched_skills iff it
\* is in the lowercased resume set; and both lists hold only strings of
\* jd_skills.
C10_MatchPartitionsJd ==
    MatchReturned =>
        /\ \A k \in LowerSet(call.jd_skills) :
            /\ InListLower(k, ret.matched_skills) # InListLower(k, ret.missing_skills)
            /\ InListLower(k, ret.matched_skills) <=> k \in LowerSet(call.resume_skills)
        /\ \A i \in DOMAIN ret.matched_skills : InList(ret.matched_skills[i], call.jd_skills)
        /\ \A i \in DOMAIN ret.missing_skills : InList(ret.missing_skills[i], call.jd_skills)

\* calculate_match(["Python"], ["python", "SQL"]) has returned matched
\* ["python"] and missing ["SQL"].
C10_Witness ==
    /\ MatchReturned
    /\ call.resume_skills = <<Skill_Python>>
    /\ call.jd_skills = <<Skill_python, Skill_SQL>>
    /\ ret.matched_skills = <<Skill_python>>
    /\ ret.missing_skills = <<Skill_SQL>>

Skill_Go == <<"G","o">>

\* The strings of the list xs, as a set.
SetOf(xs) == {xs[i] : i \in DOMAIN xs}

\* The original statement of C11: the strings of matched_skills and
\* missing_skills together are exactly the lowercased JD skills, and no string
\* is in both lists.
C11_UnionIsLoweredJd ==
    MatchReturned =>
        /\ SetOf(ret.matched_skills) \cup SetOf(ret.missing_skills) = LowerSet(call.jd_skills)
        /\ SetOf(ret.matched_skills) \cap SetOf(ret.missing_skills) = {}

\* C11: the strings of matched_skills and missing_skills, lowercased, are
\* together exactly the lowercased JD skills, and no string is in both lists.
C11_LoweredUnionIsLoweredJd ==
    MatchReturned =>
        /\ LowerSet(ret.matched_skills) \cup LowerSet(ret.missing_skills)
                = LowerSet(call.jd_skills)
        /\ SetOf(ret.matched_skills) \cap SetOf(ret.missing_skills) = {}

\* calculate_match(["python"], ["Python", "SQL"]) has returned matched
\* ["Python"] and missing ["SQL"], in the casing of jd_skills.
C11_Witness ==
    /\ MatchReturned
    /\ call.resume_skills = <<Skill_python>>
    /\ call.jd_skills = <<Skill_Python, Skill_SQL>>
    /\ ret.matched_skills = <<Skill_Python>>
    /\ ret.missing_skills = <<Skill_SQL>>

\* The number of distinct lowercased JD skills that the lowercased resume holds.
DistinctMatched(resume_skills, jd_skills) ==
    Cardinality({k \in LowerSet(jd_skills) : InListLower(k, resume_skills)})

\* C12: the score is 0.0 for an empty jd_skills and otherwise the hundredth of
\* a percent nearest to 100 * (distinct matched skills) / len(jd_skills),
\* duplicates of jd_skills counted in the denominator: 33.33 with
\* total_jd_skills 3 for (["Python"], ["Python", "Python", "SQL"]) and 50.0
\* for (["Python"], ["python", "SQL"]).
C12_ScoreArithmetic ==
    MatchReturned =>
        /\ exc = ""
        /\ Len(call.jd_skills) = 0 => ret.score = 0
        /\ Len(call.jd_skills) > 0 =>
            LET d == ret.score * Len(call.jd_skills)
                        - 10000 * DistinctMatched(call.resume_skills, call.jd_skills)
            IN  /\ 2 * d <= Len(call.jd_skills)
                /\ 2 * (0 - d) <= Len(call.jd_skills)
        /\ (/\ call.resume_skills = <<Skill_Python>>
            /\ call.jd_skills = <<Skill_Python, Skill_Python, Skill_SQL>>)
            => ret.score = 3333 /\ ret.total_jd_skills = 3
        /\ (/\ call.resume_skills = <<Skill_Python>>
            /\ call.jd_skills = <<Skill_python, Skill_SQL>>)
            => ret.score = 5000

\* calculate_match(["Python"], ["Python", "Python", "SQL"]) has returned the
\* score 33.33 with total_jd_skills 3.
C12_Witness ==
    /\ MatchReturned
    /\ call.resume_skills = <<Skill_Python>>
    /\ call.jd_skills = <<Skill_Python, Skill_Python, Skill_SQL>>
    /\ ret.score = 3333
    /\ ret.total_jd_skills = 3

\* C13: the score lies between 0 and 100, both included.
C13_ScoreInRange ==
    MatchReturned => exc = "" /\ 0 <= ret.score /\ ret.score <= 10000

\* A call with two JD skills, both in the resume, has returned the score 100.
C13_Witness ==
    /\ MatchReturned
    /\ Len(call.jd_skills) = 2
    /\ ret.total_matched = 2
    /\ ret.score = 10000

\* The string of jd_skills whose lowercase is that of x and that comes last.
LastCasing(x, jd_skills) ==
    jd_skills[CHOOSE i \in DOMAIN jd_skills :
                /\ lower(jd_skills[i]) = lower(x)
                /\ \A j \in DOMAIN jd_skills : lower(jd_skills[j]) = lower(x) => j <= i]

\* C14: every string of matched_skills and missing_skills is spelled as an
\* element of jd_skills, never as the resume spells it, and as the last of the
\* elements of jd_skills that differ from it only in casing.
C14_CasingOfLastJdOccurrence ==
    MatchReturned =>
        \A x \in SetOf(ret.matched_skills) \cup SetOf(ret.missing_skills) :
            /\ InList(x, call.jd_skills)
            /\ x = LastCasing(x, call.jd_skills)

\* calculate_match(["Python"], ["Python", "python"]) has returned matched
\* ["python"], the casing of the last occurrence.
C14_Witness ==
    /\ MatchReturned
    /\ call.resume_skills = <<Skill_Python>>
    /\ call.jd_skills = <<Skill_Python, Skill_python>>
    /\ ret.matched_skills = <<Skill_python>>
    /\ ret.missing_skills = <<>>

\* The list xs ascends strictly in code-point order.
StrictlyAscending(xs) ==
    \A i \in DOMAIN xs : \A j \in DOMAIN xs : i < j => StrLess(xs[i], xs[j])

\* C15: matched_skills and missing_skills each ascend in case-sensitive
\* code-point order and hold no string twice; (["Python"], ["python", "SQL"])
\* gives matched ["python"] and missing ["SQL"].
C15_OutputListsSortedUnique ==
    MatchReturned =>
        /\ StrictlyAscending(ret.matched_skills)
        /\ StrictlyAscending(ret.missing_skills)
        /\ (/\ call.resume_skills = <<Skill_Python>>
            /\ call.jd_skills = <<Skill_python, Skill_SQL>>)
            => ret.matched_skills = <<Skill_python>> /\ ret.missing_skills = <<Skill_SQL>>

\* calculate_match([], ["python", "SQL", "Go"]) has returned the three skills
\* as missing, the uppercase initials before the lowercase one.
C15_Witness ==
    /\ MatchReturned
    /\ call.resume_skills = <<>>
    /\ call.jd_skills = <<Skill_python, Skill_SQL, Skill_Go>>
    /\ ret.missing_skills = <<Skill_Go, Skill_SQL, Skill_python>>

\* C16: total_jd_skills is the length of jd_skills, duplicates included, and
\* total_matched is the number of distinct matched skills, the length of
\* matched_skills.
C16_Totals ==
    MatchReturned =>
        /\ ret.total_jd_skills = Len(call.jd_skills)
        /\ ret.total_matched = Len(ret.matched_skills)
        /\ ret.total_matched = DistinctMatched(call.resume_skills, call.jd_skills)

\* calculate_match(["python", "SQL"], ["Python", "python", "SQL"]) has
\* returned total_jd_skills 3 and total_matched 2.
C16_Witness ==
    /\ MatchReturned
    /\ call.resume_skills = <<Skill_python, Skill_SQL>>
    /\ call.jd_skills = <<Skill_Python, Skill_python, Skill_SQL>>
    /\ ret.total_jd_skills = 3
    /\ ret.total_matched = 2

\* C17: calculate_match returns for degenerate inputs. With an empty
\* resume_skills the score is 0.0, matched_skills is empty and missing_skills
\* is the sorted list of the distinct JD skills; with an empty jd_skills the
\* score is 0.0, both totals are 0 and both lists are empty.
C17_DegenerateInputs ==
    MatchReturned =>
        /\ exc = ""
        /\ call.resume_skills = <<>> =>
            /\ ret.score = 0
            /\ ret.matched_skills = <<>>
            /\ LowerSet(ret.missing_skills) = LowerSet(call.jd_skills)
            /\ Len(ret.missing_skills) = Cardinality(LowerSet(call.jd_skills))
            /\ StrictlyAscending(ret.missing_skills)
        /\ call.jd_skills = <<>> =>
            /\ ret.score = 0
            /\ ret.total_jd_skills = 0
            /\ ret.total_matched = 0
            /\ ret.matched_skills = <<>>
            /\ ret.missing_skills = <<>>

\* calculate_match(["Python", "SQL"], []) has returned the score 0.0.
C17_Witness ==
    /\ MatchReturned
    /\ call.resume_skills = <<Skill_Python, Skill_SQL>>
    /\ call.jd_skills = <<>>
    /\ exc = ""
    /\ ret.score = 0
    /\ ret.total_jd_skills = 0

\* The result big scores at least as high as the result small, holds every
\* matched skill of small and misses no skill that small does not miss.
NoWorseThan(small, big) ==
    /\ big.score >= small.score
    /\ SetOf(small.matched_skills) \subseteq SetOf(big.matched_skills)
    /\ SetOf(big.missing_skills) \subseteq SetOf(small.missing_skills)

\* The sorted list of the lowercased set of the list skills: one list for all
\* the lists that have this lowercased set.
LoweredList(skills) == sorted(list_of_set(LowerSet(skills), 0))

\* C24: a resume list whose lowercased set contains that of the resume list
\* of the call gets, with the same jd_skills, a score at least as high, every
\* matched skill of the call and no missing skill the call does not have.
\* Stated by its two steps: the result is that of the one list that stands for
\* the lowercased set of the resume, so that two resumes of equal lowercased
\* set get the same result; and a resume with one more skill, which is how a
\* lowercased set grows to any set that contains it, gets a result no worse.
C24_MonotoneInResume ==
    (MatchReturned /\ exc = "") =>
        /\ ret = CalculateMatchIn(LoweredList(call.resume_skills), call.jd_skills, hashseed)
        /\ Len(call.resume_skills) < MaxResume =>
            \A skill \in SkillPool :
                NoWorseThan(ret,
                    CalculateMatchIn(Append(call.resume_skills, skill),
                                     call.jd_skills, hashseed))

\* calculate_match(["Python"], ["python", "SQL"]) has returned the score 50.0
\* with SQL missing, and the resume ["Python", "SQL"] scores 100.0.
C24_Witness ==
    /\ MatchReturned
    /\ exc = ""
    /\ call.resume_skills = <<Skill_Python>>
    /\ call.jd_skills = <<Skill_python, Skill_SQL>>
    /\ ret.score = 5000
    /\ ret.missing_skills = <<Skill_SQL>>
    /\ CalculateMatchIn(<<Skill_Python, Skill_SQL>>, call.jd_skills, hashseed).score = 10000
    /\ CalculateMatchIn(<<Skill_Python, Skill_SQL>>, call.jd_skills, hashseed).missing_skills = <<>>

(***************************************************************************)
(* Properties of get_skill_suggestions                                     *)
(***************************************************************************)

\* The call under study was get_skill_suggestions and has ended.
SuggestReturned == returned /\ call.fn = "get_skill_suggestions"

Skill_Haskell == <<"H","a","s","k","e","l","l">>

\* skill is, compared without case, a member of one of the four categories.
InSomeCategory(skill) ==
    \E c \in DOMAIN skill_categories :
        \E j \in DOMAIN skill_categories[c].skills :
            lower(skill_categories[c].skills[j]) = lower(skill)

\* C18: get_skill_suggestions returns one suggestion per input skill, in
\* input order, duplicates kept: "Learn <skill> through online courses or
\* projects" iff the skill is, compared without case, in one of the four
\* categories, "Consider gaining experience with <skill>" otherwise; ["React"]
\* gets the first form and ["Haskell"] the second.
C18_SuggestionPerSkill ==
    SuggestReturned =>
        /\ Len(ret) = Len(call.missing_skills)
        /\ \A i \in DOMAIN call.missing_skills :
            ret[i] = IF InSomeCategory(call.missing_skills[i])
                     THEN <<"L","e","a","r","n"," ">> \o call.missing_skills[i]
                            \o <<" ","t","h","r","o","u","g","h"," ","o","n","l","i","n","e"," ","c","o","u","r","s","e","s"," ","o","r"," ","p","r","o","j","e","c","t","s">>
                     ELSE <<"C","o","n","s","i","d","e","r"," ","g","a","i","n","i","n","g"," ","e","x","p","e","r","i","e","n","c","e"," ","w","i","t","h"," ">>
                            \o call.missing_skills[i]
        /\ call.missing_skills = <<Skill_React>> => ret = <<LearnSuggestion(Skill_React)>>
        /\ call.missing_skills = <<Skill_Haskell>> => ret = <<ConsiderSuggestion(Skill_Haskell)>>

\* get_skill_suggestions(["python", "Haskell"]) has returned the first form
\* for "python", a category member in another casing, and the second for
\* "Haskell".
C18_Witness ==
    /\ SuggestReturned
    /\ call.missing_skills = <<Skill_python, Skill_Haskell>>
    /\ Len(ret) = 2
    /\ ret[1] = LearnSuggestion(Skill_python)
    /\ ret[2] = ConsiderSuggestion(Skill_Haskell)

(***************************************************************************)
(* Properties of calls made at the same time                               *)
(***************************************************************************)

\* What call c returns when it runs alone in a process whose hash seed is seed.
AloneResult(c, seed) ==
    IF c.fn = "extract_skills" THEN ExtractSkillsIn(c.text, SKILLS_DATABASE, seed).value
    ELSE IF c.fn = "calculate_match"
    THEN CalculateMatchIn(c.resume_skills, c.jd_skills, seed)
    ELSE get_skill_suggestions(c.missing_skills)

AloneResults ==
    [c \in UNION {ThreadCalls(t) : t \in Threads} |->
        [seed \in HashSeeds |-> AloneResult(c, seed)]]

\* C7: under any interleaving of calls of extract_skills, calculate_match and
\* get_skill_suggestions, each call returns what it returns when run alone on
\* the same arguments, whatever the hash seed (an extract_skills call on its
\* way there has found only skills it returns when run alone), and the catalog
\* list and the lookup stay as the import built them.
C7_CallsArePure ==
    /\ skills_database = SKILLS_DATABASE
    /\ skills_lookup = SKILLS_LOOKUP
    /\ \A t \in Threads :
        /\ pc[t] = "done" =>
            \A seed \in HashSeeds : tret[t] = AloneResults[tcall[t]][seed]
        /\ pc[t] = "loop" =>
            \A skill \in frame[t].found_skills :
                InList(skill, AloneResults[tcall[t]][hashseed])

\* Thread t1's extract_skills has returned its skills while thread t2's
\* extract_skills of another text stands in its loop with skills found.
C7_Witness ==
    /\ pc["t1"] = "done"
    /\ tcall["t1"].fn = "extract_skills"
    /\ tret["t1"] # <<>>
    /\ pc["t2"] = "loop"
    /\ tcall["t2"].fn = "extract_skills"
    /\ frame["t2"].found_skills # {}
    /\ frame["t2"].i <= Len(skills_database)

(***************************************************************************)
(* Properties of the match service                                         *)
(***************************************************************************)

\* The step answers a match request.
MatchAnswered == handled' = handled + 1 /\ request'.route = "analyze_match"

\* The step answers a match request with 200 and success true.
MatchSucceeds ==
    /\ MatchAnswered
    /\ response'.status = 200
    /\ response'.body.success

\* The step answers a match request that came to the save, and the save
\* stored nothing: get_analysis_model or create_analysis raised.
SaveFails ==
    /\ MatchAnswered
    /\ AnalyzeMatchStage(request'.data).go
    /\ analyses' = analyses

\* C19: every match request answered with 200 and success true adds exactly
\* one record to the collection, no step changes a record the collection
\* keeps, and only a deletion request removes one.
C19_OneRecordPerSuccessfulMatch ==
    [][/\ MatchSucceeds =>
            \E id \in DOMAIN analyses' :
                /\ id \notin DOMAIN analyses
                /\ DOMAIN analyses' = DOMAIN analyses \cup {id}
       /\ \A id \in DOMAIN analyses :
            id \in DOMAIN analyses' => analyses'[id] = analyses[id]
       /\ DOMAIN analyses \ DOMAIN analyses' # {} => request'.route = "delete_analysis"
      ]_vars

\* C20: a match request whose save fails is still answered with 200 and
\* success true, and with the score, matched_skills, missing_skills and
\* jd_skills of the response it gets when the save succeeds.
C20_SaveFailureKeepsAnswer ==
    [][SaveFails =>
            /\ response'.status = 200
            /\ response'.body.success
            /\ db_error' # ""
            /\ response'.body.score
                    = MatchResponse(AnalyzeMatchStage(request'.data), PyStr(<<last_id + 1>>)).score
            /\ response'.body.matched_skills
                    = MatchResponse(AnalyzeMatchStage(request'.data), PyStr(<<last_id + 1>>)).matched_skills
            /\ response'.body.missing_skills
                    = MatchResponse(AnalyzeMatchStage(request'.data), PyStr(<<last_id + 1>>)).missing_skills
            /\ response'.body.jd_skills
                    = MatchResponse(AnalyzeMatchStage(request'.data), PyStr(<<last_id + 1>>)).jd_skills
      ]_vars

\* A match of ["Python"] against "Python and Java" was answered with 200 and
\* the score 33.33 although insert_one raised and nothing was stored.
C20_Witness ==
    /\ request.route = "analyze_match"
    /\ db_error = "PyMongoError"
    /\ response.status = 200
    /\ response.body.success
    /\ response.body.score = 3333
    /\ response.body.matched_skills = <<Skill_Python>>
    /\ DOMAIN analyses = {}

\* The request answered last was a match request, answered with 200.
MatchAnswered200 == request.route = "analyze_match" /\ response.status = 200

\* C21: the 200 response of a match request holds the key analysis_id only
\* if the analysis was saved; after a failed save it holds no analysis_id.
C21_AnalysisIdOnlyIfSaved ==
    MatchAnswered200 =>
        ("analysis_id" \in DOMAIN response.body => db_error = "")

\* C22: the JD skills of a 200 response hold no skill twice, compared without
\* case, as the catalog holds none in two casings; total_jd_skills is
\* total_matched plus the number of missing skills; and the score is 100.0
\* exactly when there are JD skills and none is missing.
C22_PipelineTotals ==
    /\ \A i \in DOMAIN skills_database :
            skills_lookup[lower(skills_database[i])] = skills_database[i]
    /\ MatchAnswered200 =>
        /\ \A i \in DOMAIN response.body.jd_skills :
                \A j \in DOMAIN response.body.jd_skills :
                    lower(response.body.jd_skills[i]) = lower(response.body.jd_skills[j])
                        => i = j
        /\ response.body.total_jd_skills
                = response.body.total_matched + Len(response.body.missing_skills)
        /\ response.body.score = 10000 <=>
                (/\ Len(response.body.jd_skills) > 0
                 /\ Len(response.body.missing_skills) = 0)

\* The resume text "I love JavaScript" was matched against "JavaScript" and
\* answered with the score 100.0, nothing missing.
C22_Witness ==
    /\ MatchAnswered200
    /\ "resume_text" \in DOMAIN request.data
    /\ response.body.score = 10000
    /\ response.body.total_jd_skills = 2
    /\ response.body.total_matched = 2
    /\ response.body.missing_skills = <<>>

\* C26: a match request answered with 200 handed calculate_match a resume
\* skill list that is not empty; a request whose resume skills resolve to no
\* skill is answered with 400 and stores nothing.
C26_MatchOnlyNonEmptyResume ==
    request.route = "analyze_match" =>
        /\ response.status = 200 => Len(AnalyzeMatchStage(request.data).resume_skills) > 0
        /\ (/\ AnalyzeMatchStage(request.data).go
            /\ Len(AnalyzeMatchStage(request.data).resume_skills) = 0)
            => response.status = 400 /\ DOMAIN analyses = {}

(***************************************************************************)
(* Properties of get_analysis_model                                        *)
(***************************************************************************)

\* C25: whatever the interleaving of the request threads, the process builds
\* at most one AnalysisModel, and the calls of get_analysis_model that have
\* returned have all returned that object.
C25_OneModelPerProcess ==
    /\ constructed <= 1
    /\ \A t \in Threads :
            (pc[t] = "done" /\ tcall[t].fn = "get_analysis_model")
                => tret[t] = _analysis_model

====
